---- MODULE Spec2Model ----
(***************************************************************************)
(* Model of the claude-monitor native messaging host                       *)
(* (native-host/claude_monitor_host.cjs), of the offline backfill          *)
(* (native-host/backfill-resets.cjs) and of the store operations of the    *)
(* menu-bar app (menubar-app/.../UsageStore.swift) that write the same     *)
(* SQLite file.                                                            *)
(*                                                                         *)
(* Encoding.  A nullable value is a sequence of length 0 (SQL NULL, JS     *)
(* null/undefined) or 1 (<<v>>).  A timestamp TEXT and a JS Date are the   *)
(* pair <<valid, t>>: <<TRUE, t>> is the instant t (seconds of local wall  *)
(* clock, 0 = a Sunday 00:00:00) in toISOString() form, <<FALSE, 0>> is a  *)
(* string Date cannot parse (as TEXT) or an Invalid Date (as Date).  The   *)
(* zone offset is fixed: no daylight-saving transition is modelled.        *)
(***************************************************************************)
EXTENDS Integers, Sequences, FiniteSets, TLC

VARIABLES
    accounts,       \* table accounts: id -> <<>> (no row) or <<row>>
    usage_history,  \* table usage_history: set of rows
    nextId,         \* AUTOINCREMENT counter of usage_history.id
    host,           \* native host processes: slot -> local state
    bf,             \* the backfill process
    app,            \* the menu-bar app's store operation in progress
    nreq,           \* number of operations started (bounds the run)
    userName,       \* history: id -> name of the latest rename that hit a row
    call            \* a function of the program applied to drawn arguments

vars == <<accounts, usage_history, nextId, host, bf, app, nreq, userName, call>>

----------------------------------------------------------------------------
(* Nullable values *)

Null == <<>>
Some(v) == <<v>>
IsNull(x) == x = <<>>
Val(x) == x[1]
\* Coalesce that always takes the new value
Coalesce_overwrite(a, b) == a

\* JS  a ?? b
Coalesce(a, b) == IF IsNull(a) THEN b ELSE a

(* Instants *)
Minute == 60
Hour == 60 * Minute
Day == 24 * Hour
InvalidDate == <<FALSE, 0>>
DateOf(t) == <<TRUE, t>>
IsValid(d) == d[1]
TimeOf(d) == d[2]

\* TEXT comparison of two stored timestamps.  Valid ones are toISOString()
\* strings, whose lexicographic order is chronological; the unparseable
\* string of the model ("not-a-date") sorts after every digit-led string.
TsLess(a, b) ==
    IF IsValid(a) /\ IsValid(b) THEN TimeOf(a) < TimeOf(b)
    ELSE IsValid(a) /\ ~IsValid(b)
TsLeq(a, b) == a = b \/ TsLess(a, b)

\* new Date(text)
NewDate(ts) == IF IsValid(ts) THEN ts ELSE InvalidDate
\* new Date(date.getTime() + ms), in seconds
PlusSeconds(d, s) == IF IsValid(d) THEN DateOf(TimeOf(d) + s) ELSE InvalidDate

----------------------------------------------------------------------------
(* Reset texts.  A matched regular expression is modelled by its capture  *)
(* groups: a text is [empty, rel, abs], where rel is the match of          *)
(* /in\s+(\d+)\s*(?:hr|hour)s?\s*(?:(\d+)\s*min)?/i (Null when the text    *)
(* does not match, else [hours, minutes] with minutes Null when the group  *)
(* did not take part) and abs the match of                                 *)
(* /([A-Za-z]{3})\s+(\d{1,2}):(\d{2})\s*(AM|PM)/i.                         *)

RelText(h, m) == [empty |-> FALSE, rel |-> Some([hours |-> h, minutes |-> m]),
                  abs |-> Null]
AbsText(d, h, m, ap) ==
    [empty |-> FALSE, rel |-> Null,
     abs |-> Some([dayName |-> d, hour |-> h, minute |-> m, ampm |-> ap])]
OtherText == [empty |-> FALSE, rel |-> Null, abs |-> Null]
\* A text both expressions match, such as 'in 2 hr 30 min (Thu 10:00 AM)'
BothText(h, m, d, ah, am, ap) ==
    [empty |-> FALSE, rel |-> Some([hours |-> h, minutes |-> m]),
     abs |-> Some([dayName |-> d, hour |-> ah, minute |-> am, ampm |-> ap])]
EmptyText == [empty |-> TRUE, rel |-> Null, abs |-> Null]

dayMap == [Sun |-> 0, Mon |-> 1, Tue |-> 2, Wed |-> 3, Thu |-> 4, Fri |-> 5,
           Sat |-> 6]

toUpperCase(ap) == IF ap \in {"AM", "am"} THEN "AM" ELSE "PM"

\* Date.prototype.getDay, setHours(h, m, 0, 0) and setDate(getDate() + n)
getDay(d) == (TimeOf(d) \div Day) % 7
setHours(d, h, m) ==
    IF IsValid(d) THEN DateOf((TimeOf(d) \div Day) * Day + h * Hour + m * Minute)
    ELSE InvalidDate
addDays(d, n) == PlusSeconds(d, n * Day)

\* Convert to 24-hour
to24(hour, ampm) ==
    IF ampm = "PM" /\ hour # 12 THEN hour + 12
    ELSE IF ampm = "AM" /\ hour = 12 THEN 0
    ELSE hour

\* daysUntilOf with the comparison resetTime < refDate
daysUntilOf_strict(targetDay, refDate, resetTime) ==
    LET d0 == targetDay - getDay(refDate)
        d1 == IF d0 < 0 THEN d0 + 7 ELSE d0
    IN  IF d1 = 0 /\ TimeOf(resetTime) < TimeOf(refDate) THEN 7 ELSE d1

\* let daysUntil = targetDay - currentDay; ... (NaN compares false)
daysUntilOf(targetDay, refDate, resetTime) ==
    LET d0 == targetDay - getDay(refDate)
        d1 == IF d0 < 0 THEN d0 + 7 ELSE d0
    IN  IF d1 = 0 /\ TimeOf(resetTime) <= TimeOf(refDate) THEN 7 ELSE d1

parseAbsolute(m, refDate) ==
    LET hour == to24(m.hour, toUpperCase(m.ampm))
    IN  IF m.dayName \notin DOMAIN dayMap THEN Null
        ELSE IF ~IsValid(refDate) THEN Some(InvalidDate)
        ELSE LET resetTime == setHours(refDate, hour, m.minute)
             IN  Some(addDays(resetTime,
                              daysUntilOf(dayMap[m.dayName], refDate, resetTime)))

\* parseRelative that drops the minutes group
parseRelative_hoursOnly(m, refDate) ==
    LET hours == m.hours
        minutes == 0
    IN  Some(PlusSeconds(refDate, (hours * 60 + minutes) * 60))

parseRelative(m, refDate) ==
    LET hours == m.hours
        minutes == IF IsNull(m.minutes) THEN 0 ELSE Val(m.minutes)
    IN  Some(PlusSeconds(refDate, (hours * 60 + minutes) * 60))

\* parseResetTime falling back to the reference time for a text of neither format
parseResetTime_fallback(resetStr, referenceTimestamp) ==
    IF IsNull(resetStr) \/ Val(resetStr).empty THEN Null
    ELSE LET refDate == NewDate(referenceTimestamp)
             s == Val(resetStr)
         IN  IF ~IsNull(s.rel) THEN parseRelative(Val(s.rel), refDate)
             ELSE IF ~IsNull(s.abs) THEN parseAbsolute(Val(s.abs), refDate)
             ELSE Some(refDate)

\* Null, or Some(Date); the Date may be invalid
parseResetTime(resetStr, referenceTimestamp) ==
    IF IsNull(resetStr) \/ Val(resetStr).empty THEN Null
    ELSE LET refDate == NewDate(referenceTimestamp)
             s == Val(resetStr)
         IN  IF ~IsNull(s.rel) THEN parseRelative(Val(s.rel), refDate)
             ELSE IF ~IsNull(s.abs) THEN parseAbsolute(Val(s.abs), refDate)
             ELSE Null

----------------------------------------------------------------------------
(* The store: the two tables and the prepared statements *)

AccountIds == {"default", "acct1", "acct2"}

HasRow(accts, id) == ~IsNull(accts[id])
RowOf(accts, id) == Val(accts[id])
ExistingIds(accts) == {id \in AccountIds : HasRow(accts, id)}

SetMax(S) == CHOOSE x \in S : \A y \in S : y <= x

\* nextSortOrder as the number of accounts: (SELECT COUNT(*) FROM accounts)
nextSortOrder_count(accts) == Cardinality(ExistingIds(accts))

\* COALESCE((SELECT MAX(sort_order) + 1 FROM accounts), 0)
nextSortOrder(accts) ==
    IF ExistingIds(accts) = {} THEN 0
    ELSE SetMax({RowOf(accts, id).sort_order : id \in ExistingIds(accts)}) + 1

\* upsertAccount whose ON CONFLICT clause also sets account_name
upsertAccount_overwritesName(accts, id, accountName, email, plan, timestamp) ==
    IF ~HasRow(accts, id)
    THEN [accts EXCEPT ![id] =
            Some([account_name |-> accountName, email |-> email, plan |-> plan,
                  last_updated |-> timestamp,
                  sort_order |-> nextSortOrder(accts)])]
    ELSE [accts EXCEPT ![id] =
            Some([RowOf(accts, id) EXCEPT
                    !.account_name = Coalesce(accountName, RowOf(accts, id).account_name),
                    !.email = Coalesce(email, RowOf(accts, id).email),
                    !.plan = Coalesce(plan, RowOf(accts, id).plan),
                    !.last_updated = timestamp])]

\* upsertAccount whose ON CONFLICT clause sets last_updated only together
\* with an email or a plan
upsertAccount_staleLastUpdated(accts, id, accountName, email, plan, timestamp) ==
    IF ~HasRow(accts, id)
    THEN [accts EXCEPT ![id] =
            Some([account_name |-> accountName, email |-> email, plan |-> plan,
                  last_updated |-> timestamp,
                  sort_order |-> nextSortOrder(accts)])]
    ELSE [accts EXCEPT ![id] =
            Some([RowOf(accts, id) EXCEPT
                    !.email = Coalesce(email, RowOf(accts, id).email),
                    !.plan = Coalesce(plan, RowOf(accts, id).plan),
                    !.last_updated = IF IsNull(email) /\ IsNull(plan)
                                     THEN RowOf(accts, id).last_updated
                                     ELSE timestamp])]

\* INSERT INTO accounts ... ON CONFLICT(id) DO UPDATE SET email, plan,
\* last_updated
upsertAccount(accts, id, accountName, email, plan, timestamp) ==
    IF ~HasRow(accts, id)
    THEN [accts EXCEPT ![id] =
            Some([account_name |-> accountName, email |-> email, plan |-> plan,
                  last_updated |-> timestamp,
                  sort_order |-> nextSortOrder(accts)])]
    ELSE [accts EXCEPT ![id] =
            Some([RowOf(accts, id) EXCEPT
                    !.email = Coalesce(email, RowOf(accts, id).email),
                    !.plan = Coalesce(plan, RowOf(accts, id).plan),
                    !.last_updated = timestamp])]

\* A row of usage_history as the INSERT statements build it
UsageRow(id, acct, ts, primary, session, wAll, wSonnet, sReset, wReset, raw, syn) ==
    [id |-> id, account_id |-> acct, timestamp |-> ts,
     primary_percent |-> primary, session_percent |-> session,
     weekly_all_percent |-> wAll, weekly_sonnet_percent |-> wSonnet,
     session_reset |-> sReset, weekly_reset |-> wReset,
     raw_data |-> raw, is_synthetic |-> syn]

\* insertUsage: ... VALUES (?, ?, ?, ?, ?, ?, ?, ?, ?, ?) with is_synthetic 0
insertUsage(id, acct, ts, primary, session, wAll, wSonnet, sReset, wReset, raw) ==
    UsageRow(id, acct, ts, primary, session, wAll, wSonnet, sReset, wReset, raw, 0)

\* insertSyntheticPoint: ... VALUES (?, ?, ?, ?, ?, ?, NULL, NULL, NULL, 1)
insertSyntheticPoint(id, acct, ts, primary, session, wAll, wSonnet) ==
    UsageRow(id, acct, ts, primary, session, wAll, wSonnet, Null, Null, Null, 1)

\* FOREIGN KEY (account_id) REFERENCES accounts(id), which the host's SQLite
\* binding (better-sqlite3, foreign_keys on by default) checks on INSERT
foreignKeyOk(accts, accountId) == HasRow(accts, accountId)

RowsOf(rows, accountId) == {r \in rows : r.account_id = accountId}

\* SELECT * FROM usage_history WHERE account_id = ? ORDER BY timestamp DESC
\* LIMIT 1: the rows the query may return (SQL leaves the order of equal
\* timestamps open); empty when the account has no row
getLatestUsage(rows, accountId) ==
    {r \in RowsOf(rows, accountId) :
        \A q \in RowsOf(rows, accountId) : TsLeq(q.timestamp, r.timestamp)}

\* The sequences over the finite set S that list each element once
Orderings(S) ==
    {f \in [1..Cardinality(S) -> S] : \A i, j \in 1..Cardinality(S) : i # j => f[i] # f[j]}

\* getAllAccounts with ORDER BY a.sort_order ASC, a.last_updated ASC
getAllAccounts_oldestFirst(accts) ==
    {f \in Orderings(ExistingIds(accts)) :
        \A i, j \in DOMAIN f : i < j =>
            LET a == RowOf(accts, f[i])
                b == RowOf(accts, f[j])
            IN  \/ a.sort_order < b.sort_order
                \/ /\ a.sort_order = b.sort_order
                   /\ TsLeq(a.last_updated, b.last_updated)}

\* SELECT a.* ... FROM accounts a ORDER BY a.sort_order ASC, a.last_updated DESC
\* : the id sequences the query may return
getAllAccounts(accts) ==
    {f \in Orderings(ExistingIds(accts)) :
        \A i, j \in DOMAIN f : i < j =>
            LET a == RowOf(accts, f[i])
                b == RowOf(accts, f[j])
            IN  \/ a.sort_order < b.sort_order
                \/ /\ a.sort_order = b.sort_order
                   /\ TsLeq(b.last_updated, a.last_updated)}

\* UPDATE accounts SET sort_order = ? WHERE id = ?
updateAccountSortOrder(accts, index, id) ==
    IF HasRow(accts, id)
    THEN [accts EXCEPT ![id] = Some([RowOf(accts, id) EXCEPT !.sort_order = index])]
    ELSE accts

\* reordered.forEach((account, index) => updateAccountSortOrder.run(index, account.id))
\* for the elements from..Len(reordered)
RECURSIVE updateFrom(_, _, _)
updateFrom(accts, reordered, from) ==
    IF from > Len(reordered) THEN accts
    ELSE updateFrom(updateAccountSortOrder(accts, from - 1, reordered[from]),
                    reordered, from + 1)

\* updateAll that stops after the first account
updateAll_firstOnly(accts, reordered) ==
    IF reordered = <<>> THEN accts
    ELSE updateAccountSortOrder(accts, 0, reordered[1])

\* db.transaction(() => reordered.forEach(...))()
updateAll(accts, reordered) == updateFrom(accts, reordered, 1)

\* moveToFront that exchanges the target and the first account
moveToFront_swap(seq, t) ==
    [seq EXCEPT ![1] = seq[t], ![t] = seq[1]]

\* [accounts[targetIndex], ...accounts.slice(0, targetIndex), ...accounts.slice(targetIndex + 1)]
\* with the 1-based index t
moveToFront(seq, t) ==
    <<seq[t]>> \o SubSeq(seq, 1, t - 1) \o SubSeq(seq, t + 1, Len(seq))

\* findIndex that answers the first position for an absent id
findIndex_firstWhenAbsent(seq, id) ==
    IF \E i \in DOMAIN seq : seq[i] = id
    THEN CHOOSE i \in DOMAIN seq : seq[i] = id /\ \A j \in 1..(i - 1) : seq[j] # id
    ELSE IF seq = <<>> THEN 0 ELSE 1

\* accounts.findIndex(a => a.id === accountId), 1-based, 0 when absent
findIndex(seq, id) ==
    IF \E i \in DOMAIN seq : seq[i] = id
    THEN CHOOSE i \in DOMAIN seq : seq[i] = id /\ \A j \in 1..(i - 1) : seq[j] # id
    ELSE 0

----------------------------------------------------------------------------
(* Messages.  A decoded message is [json, type, accountId, data, limit]:   *)
(* json tells an object from the JSON values null and a number.  data is   *)
(* Null or Some of a record of nullable fields; sections is Null or Some   *)
(* sequence of [type, percentUsed, resetTime]; rawText is Null or          *)
(* Some([sessionMatch]) with the text 'in ' + sessionMatch[1].trim() that   *)
(* the "Resets in ..." pattern of the host yields, Null when it matches    *)
(* nothing.                                                                *)

\* JS truthiness of a nullable string and of a nullable reset text
TruthyString(x) == ~IsNull(x) /\ Val(x) # ""
TruthyText(x) == ~IsNull(x) /\ ~Val(x).empty
\* x || null
OrNull(x) == IF TruthyString(x) THEN x ELSE Null

\* for (const section of data.sections) { ... }, on the elements i..Len
RECURSIVE sectionsLoop(_, _, _)
sectionsLoop(st, sections, i) ==
    IF i > Len(sections) THEN st
    ELSE LET section == sections[i]
             next ==
                IF section.type = "all_models" /\ IsNull(st.weeklyAllPercent)
                THEN [st EXCEPT !.weeklyAllPercent = section.percentUsed,
                                !.weeklyReset = IF ~TruthyText(st.weeklyReset)
                                                THEN section.resetTime
                                                ELSE st.weeklyReset]
                ELSE IF section.type = "sonnet_only" /\ IsNull(st.weeklySonnetPercent)
                THEN [st EXCEPT !.weeklySonnetPercent = section.percentUsed]
                ELSE st
         IN  sectionsLoop(next, sections, i + 1)

\* The flattened fields, the sections fallback and the rawText fallback
extractFields(data) ==
    LET flat == [sessionPercent |-> Coalesce(data.sessionPercent, data.primaryPercent),
                 weeklyAllPercent |-> data.weeklyAllPercent,
                 weeklySonnetPercent |-> data.weeklySonnetPercent,
                 sessionReset |-> data.sessionReset,
                 weeklyReset |-> data.weeklyReset]
        sect == IF /\ ~IsNull(data.sections)
                   /\ (IsNull(flat.weeklyAllPercent) \/ IsNull(flat.weeklySonnetPercent))
                THEN sectionsLoop(flat, Val(data.sections), 1)
                ELSE flat
    IN  IF /\ ~TruthyText(sect.sessionReset)
           /\ ~IsNull(data.rawText)
           /\ ~IsNull(Val(data.rawText).sessionMatch)
        THEN [sect EXCEPT !.sessionReset = Val(data.rawText).sessionMatch]
        ELSE sect

\* Responses written by sendMessage
Failure(error) ==
    [success |-> FALSE, error |-> Some(error), accountId |-> Null,
     percent |-> Null, resetDetected |-> Null, body |-> Null]
UsageUpdated(accountId, percent, resetDetected) ==
    [success |-> TRUE, error |-> Null, accountId |-> Some(accountId),
     percent |-> percent, resetDetected |-> Some(resetDetected), body |-> Null]
Reordered(accountId) ==
    [success |-> TRUE, error |-> Null, accountId |-> Some(accountId),
     percent |-> Null, resetDetected |-> Null, body |-> Null]
Fetched(body) ==
    [success |-> TRUE, error |-> Null, accountId |-> Null,
     percent |-> Null, resetDetected |-> Null, body |-> Some(body)]

\* Reset detected if usage dropped by more than 5%
resetThreshold == 5

\* isReset with a drop of at least the threshold
isReset_atLeast(prevReading, weeklyAllPercent) ==
    /\ ~IsNull(prevReading)
    /\ ~IsNull(weeklyAllPercent)
    /\ ~IsNull(Val(prevReading).weekly_all_percent)
    /\ Val(Val(prevReading).weekly_all_percent) - Val(weeklyAllPercent) >= resetThreshold

\* prev && prev.weekly_all_percent !== null && d.weeklyAllPercent !== null && drop > 5
isReset(prevReading, weeklyAllPercent) ==
    /\ ~IsNull(prevReading)
    /\ ~IsNull(weeklyAllPercent)
    /\ ~IsNull(Val(prevReading).weekly_all_percent)
    /\ Val(Val(prevReading).weekly_all_percent) - Val(weeklyAllPercent) > resetThreshold

----------------------------------------------------------------------------
(* The native host process.  A slot of host holds one invocation: the      *)
(* process is started for one message and exits after its response.        *)

NoMsg == [json |-> "number", type |-> "", accountId |-> Null, data |-> Null,
          limit |-> Null]
NoFields == [sessionPercent |-> Null, weeklyAllPercent |-> Null,
             weeklySonnetPercent |-> Null, sessionReset |-> Null,
             weeklyReset |-> Null]
IdleHost ==
    [pc |-> "idle", msg |-> NoMsg, accountId |-> "default",
     timestamp |-> InvalidDate, f |-> NoFields, prevReading |-> Null,
     resetDetected |-> FALSE, resetTime |-> Null, reordered |-> <<>>,
     out |-> <<>>, added |-> {}, userSet |-> Null, rowBefore |-> Null,
     listed |-> <<>>,
     stream |-> <<>>, straddled |-> FALSE, fault |-> "none",
     stdin |-> <<>>, chunks |-> <<>>, lengthBuffer |-> <<>>, messageLength |-> Null]

Procs == {1, 2}

\* sendMessage(msg), after which main returns and the process exits
Respond(p, response) ==
    [host EXCEPT ![p].out = Append(@, response), ![p].pc = "done"]

\* catch (e) { sendMessage({ success: false, error: e.message }) }
Throw(p, e) == Respond(p, Failure(e))

\* msg.accountId || 'default'
accountIdOf(msg) ==
    IF TruthyString(msg.accountId) THEN Val(msg.accountId) ELSE "default"

\* The browser starts a host for the decoded message m
Start(p, m) ==
    /\ host[p].pc \in {"idle", "done", "crashed"}
    /\ host' = [host EXCEPT ![p] = [IdleHost EXCEPT !.pc = "process", !.msg = m]]
    /\ nreq' = nreq + 1
    /\ UNCHANGED <<accounts, usage_history, nextId, bf, app, userName, call>>

\* processMessage, USAGE_UPDATE: the field extraction and upsertAccount.run.
\* now is the clock read by new Date().toISOString().  userSet and rowBefore
\* are history: the name the user had set and the account's row (or its
\* absence) as the upsert found them.
UsageUpdate(p, now) ==
    LET msg == host[p].msg IN
    /\ host[p].pc = "process"
    /\ msg.json = "object"
    /\ msg.type = "USAGE_UPDATE"
    /\ IF IsNull(msg.data)
       THEN /\ host' = Throw(p, "TypeError")
            /\ UNCHANGED accounts
       ELSE LET data == Val(msg.data)
                accountId == accountIdOf(msg)
                timestamp == IF IsNull(data.timestamp) THEN now
                             ELSE Val(data.timestamp)
            IN  /\ accounts' = upsertAccount(accounts, accountId,
                                             OrNull(data.accountName),
                                             OrNull(data.email),
                                             OrNull(data.plan), timestamp)
                /\ host' = [host EXCEPT ![p].accountId = accountId,
                                        ![p].timestamp = timestamp,
                                        ![p].f = extractFields(data),
                                        ![p].userSet = userName[accountId],
                                        ![p].rowBefore = Some(accounts[accountId]),
                                        ![p].pc = "detect"]
    /\ UNCHANGED <<usage_history, nextId, bf, app, nreq, userName, call>>

\* getLatestUsage.get, the reset check and parseResetTime; an Invalid Date
\* is truthy and makes resetTime.toISOString() throw a RangeError
DetectReset(p) ==
    LET h == host[p]
        latest == getLatestUsage(usage_history, h.accountId)
    IN
    /\ h.pc = "detect"
    /\ \E prevReading \in IF latest = {} THEN {Null} ELSE {Some(r) : r \in latest} :
        LET resetDetected == isReset(prevReading, h.f.weeklyAllPercent)
            resetTime == IF resetDetected
                         THEN parseResetTime(Val(prevReading).weekly_reset,
                                             Val(prevReading).timestamp)
                         ELSE Null
        IN  IF ~IsNull(resetTime) /\ ~IsValid(Val(resetTime))
            THEN host' = Throw(p, "Invalid time value")
            ELSE host' = [host EXCEPT
                            ![p].prevReading = prevReading,
                            ![p].resetDetected = resetDetected,
                            ![p].resetTime = resetTime,
                            ![p].pc = IF IsNull(resetTime) THEN "insert"
                                      ELSE "synthetic1"]
    /\ UNCHANGED <<accounts, usage_history, nextId, bf, app, nreq, userName,
                   call>>

\* Point 1: At the reset time, still at the previous usage level
levelPoint(id, accountId, resetTime, prev) ==
    insertSyntheticPoint(id, accountId, resetTime, prev.primary_percent,
                         prev.session_percent, prev.weekly_all_percent,
                         prev.weekly_sonnet_percent)

\* zeroPoint at the reset time itself
zeroPoint_sameInstant(id, accountId, resetTime) ==
    insertSyntheticPoint(id, accountId, resetTime, Some(0),
                         Some(0), Some(0), Some(0))

\* Point 2: One second after reset, at 0%
zeroPoint(id, accountId, resetTime) ==
    insertSyntheticPoint(id, accountId, PlusSeconds(resetTime, 1), Some(0),
                         Some(0), Some(0), Some(0))

InsertLevelPoint(p) ==
    LET h == host[p]
        row == levelPoint(nextId, h.accountId, Val(h.resetTime), Val(h.prevReading))
    IN
    /\ h.pc = "synthetic1"
    /\ IF foreignKeyOk(accounts, h.accountId)
       THEN /\ usage_history' = usage_history \cup {row}
            /\ nextId' = nextId + 1
            /\ host' = [host EXCEPT ![p].added = @ \cup {row},
                                    ![p].pc = "synthetic2"]
       ELSE /\ host' = Throw(p, "FOREIGN KEY constraint failed")
            /\ UNCHANGED <<usage_history, nextId>>
    /\ UNCHANGED <<accounts, bf, app, nreq, userName, call>>

InsertZeroPoint(p) ==
    LET h == host[p]
        row == zeroPoint(nextId, h.accountId, Val(h.resetTime))
    IN
    /\ h.pc = "synthetic2"
    /\ IF foreignKeyOk(accounts, h.accountId)
       THEN /\ usage_history' = usage_history \cup {row}
            /\ nextId' = nextId + 1
            /\ host' = [host EXCEPT ![p].added = @ \cup {row},
                                    ![p].pc = "insert"]
       ELSE /\ host' = Throw(p, "FOREIGN KEY constraint failed")
            /\ UNCHANGED <<usage_history, nextId>>
    /\ UNCHANGED <<accounts, bf, app, nreq, userName, call>>

\* The real reading of the request
realRow(id, h) ==
    LET data == Val(h.msg.data)
    IN  insertUsage(id, h.accountId, h.timestamp, data.primaryPercent,
                    h.f.sessionPercent, h.f.weeklyAllPercent,
                    h.f.weeklySonnetPercent, h.f.sessionReset, h.f.weeklyReset,
                    Some(data))

\* InsertUsage as INSERT OR REPLACE keyed by account and timestamp
InsertUsage_replacing(p) ==
    LET h == host[p]
        row == realRow(nextId, h)
        same == {r \in RowsOf(usage_history, h.accountId) : r.timestamp = h.timestamp}
    IN
    /\ h.pc = "insert"
    /\ IF foreignKeyOk(accounts, h.accountId)
       THEN /\ usage_history' = (usage_history \ same) \cup {row}
            /\ nextId' = nextId + 1
            /\ host' = [Respond(p, UsageUpdated(h.accountId,
                                                Val(h.msg.data).primaryPercent,
                                                h.resetDetected))
                          EXCEPT ![p].added = @ \cup {row}]
       ELSE /\ host' = Throw(p, "FOREIGN KEY constraint failed")
            /\ UNCHANGED <<usage_history, nextId>>
    /\ UNCHANGED <<accounts, bf, app, nreq, userName, call>>

\* insertUsage.run and sendMessage({success: true, ...})
InsertUsage(p) ==
    LET h == host[p]
        row == realRow(nextId, h)
    IN
    /\ h.pc = "insert"
    /\ IF foreignKeyOk(accounts, h.accountId)
       THEN /\ usage_history' = usage_history \cup {row}
            /\ nextId' = nextId + 1
            /\ host' = [Respond(p, UsageUpdated(h.accountId,
                                                Val(h.msg.data).primaryPercent,
                                                h.resetDetected))
                          EXCEPT ![p].added = @ \cup {row}]
       ELSE /\ host' = Throw(p, "FOREIGN KEY constraint failed")
            /\ UNCHANGED <<usage_history, nextId>>
    /\ UNCHANGED <<accounts, bf, app, nreq, userName, call>>

\* The earlier version of the host, which precedes the current one in the
\* file: after the same field extraction and upsertAccount.run it goes on to
\* insertUsage.run with no look at the previous reading.  Its rows have no
\* is_synthetic value of their own; the migration's DEFAULT 0 gives them 0.
StoreWithoutDetection(p) ==
    /\ host[p].pc = "detect"
    /\ host' = [host EXCEPT ![p].pc = "insert"]
    /\ UNCHANGED <<accounts, usage_history, nextId, bf, app, nreq, userName,
                   call>>

\* (SELECT primary_percent FROM usage_history WHERE account_id = a.id
\*  ORDER BY timestamp DESC LIMIT 1): the values the subquery may yield
latestPercentOf(rows, id) ==
    IF getLatestUsage(rows, id) = {} THEN {Null}
    ELSE {r.primary_percent : r \in getLatestUsage(rows, id)}

\* getAllAccounts.all() mapped to the response, for the id order ids
accountList(ids, accts, rows) ==
    {[i \in DOMAIN ids |->
        [id |-> ids[i], accountName |-> RowOf(accts, ids[i]).account_name,
         email |-> RowOf(accts, ids[i]).email, plan |-> RowOf(accts, ids[i]).plan,
         lastUpdated |-> RowOf(accts, ids[i]).last_updated,
         latestPercent |-> c[i]]] :
     c \in {d \in [DOMAIN ids -> UNION {latestPercentOf(rows, id) : id \in AccountIds}] :
              \A i \in DOMAIN ids : d[i] \in latestPercentOf(rows, ids[i])}}

\* processMessage, GET_DATA
GetData(p) ==
    /\ host[p].pc = "process"
    /\ host[p].msg.json = "object"
    /\ host[p].msg.type = "GET_DATA"
    /\ \E ids \in getAllAccounts(accounts) :
         \E list \in accountList(ids, accounts, usage_history) :
            host' = Respond(p, Fetched(list))
    /\ UNCHANGED <<accounts, usage_history, nextId, bf, app, nreq, userName,
                   call>>

\* msg.limit || 100
defaultLimit == 100
limitOf(msg) ==
    IF IsNull(msg.limit) \/ Val(msg.limit) = 0 THEN defaultLimit ELSE Val(msg.limit)

\* SELECT * FROM usage_history WHERE account_id = ? ORDER BY timestamp DESC
\* LIMIT ? : the row sequences the query may return.  A negative LIMIT is no
\* limit in SQLite.
getAccountHistory(rows, accountId, limit) ==
    LET mine == RowsOf(rows, accountId)
        n == IF limit < 0 \/ limit > Cardinality(mine) THEN Cardinality(mine)
             ELSE limit
    IN  {SubSeq(f, 1, n) :
           f \in {g \in Orderings(mine) :
                    \A i, j \in DOMAIN g : i < j =>
                        TsLeq(g[j].timestamp, g[i].timestamp)}}

\* processMessage, GET_HISTORY
GetHistory(p) ==
    LET msg == host[p].msg IN
    /\ host[p].pc = "process"
    /\ msg.json = "object"
    /\ msg.type = "GET_HISTORY"
    /\ \E history \in getAccountHistory(usage_history, accountIdOf(msg), limitOf(msg)) :
          host' = Respond(p, Fetched(history))
    /\ UNCHANGED <<accounts, usage_history, nextId, bf, app, nreq, userName,
                   call>>

\* processMessage, REORDER_ACCOUNT: the validation and getAllAccounts.all()
ReorderAccount(p) ==
    LET msg == host[p].msg IN
    /\ host[p].pc = "process"
    /\ msg.json = "object"
    /\ msg.type = "REORDER_ACCOUNT"
    /\ IF ~TruthyString(msg.accountId)
       THEN host' = Respond(p, Failure("accountId required"))
       ELSE \E accs \in getAllAccounts(accounts) :
              LET targetIndex == findIndex(accs, Val(msg.accountId))
              IN  IF targetIndex = 0
                  THEN host' = Respond(p, Failure("Account not found"))
                  ELSE host' = [host EXCEPT
                                  ![p].accountId = Val(msg.accountId),
                                  ![p].listed = accs,
                                  ![p].reordered = moveToFront(accs, targetIndex),
                                  ![p].pc = "updateAll"]
    /\ UNCHANGED <<accounts, usage_history, nextId, bf, app, nreq, userName,
                   call>>

\* updateAll() and sendMessage({ success: true, accountId })
UpdateAll(p) ==
    /\ host[p].pc = "updateAll"
    /\ accounts' = updateAll(accounts, host[p].reordered)
    /\ host' = Respond(p, Reordered(host[p].accountId))
    /\ UNCHANGED <<usage_history, nextId, bf, app, nreq, userName, call>>

KnownTypes == {"USAGE_UPDATE", "GET_DATA", "GET_HISTORY", "REORDER_ACCOUNT"}

\* UnknownType that first registers the default account
UnknownType_creatingAccount(p) ==
    LET msg == host[p].msg IN
    /\ host[p].pc = "process"
    /\ msg.json = "object" => msg.type \notin KnownTypes
    /\ host' = IF msg.json = "null" THEN Throw(p, "TypeError")
               ELSE Respond(p, Failure("Unknown message type"))
    /\ accounts' = upsertAccount(accounts, "default", Null, Null, Null, DateOf(0))
    /\ UNCHANGED <<usage_history, nextId, bf, app, nreq, userName, call>>

\* processMessage, the final else; msg.type of the JSON value null throws
UnknownType(p) ==
    LET msg == host[p].msg IN
    /\ host[p].pc = "process"
    /\ msg.json = "object" => msg.type \notin KnownTypes
    /\ host' = IF msg.json = "null" THEN Throw(p, "TypeError")
               ELSE Respond(p, Failure("Unknown message type"))
    /\ UNCHANGED <<accounts, usage_history, nextId, bf, app, nreq, userName,
                   call>>

\* A host process is started and new Database(DB_FILE) or the db.exec of the
\* schema throws: the exception is raised at module level, before main and
\* outside any try, so the process ends with nothing written to stdout
OpenFails(p) ==
    /\ host[p].pc \in {"idle", "done", "crashed"}
    /\ host' = [host EXCEPT ![p] = [IdleHost EXCEPT !.pc = "done", !.fault = "open"]]
    /\ nreq' = nreq + 1
    /\ UNCHANGED <<accounts, usage_history, nextId, bf, app, userName, call>>

\* The next statement of processMessage throws (disk I/O, corruption, a
\* locked file): main's catch answers with the message of the exception.
\* Inside updateAll the transaction is rolled back.
StatementFails(p) ==
    LET msg == host[p].msg IN
    /\ \/ host[p].pc \in {"detect", "synthetic1", "synthetic2", "insert", "updateAll"}
       \/ /\ host[p].pc = "process"
          /\ msg.json = "object"
          /\ msg.type \in KnownTypes
          /\ msg.type = "USAGE_UPDATE" => ~IsNull(msg.data)
          /\ msg.type = "REORDER_ACCOUNT" => TruthyString(msg.accountId)
    /\ host' = [host EXCEPT ![p].out = Append(@, Failure("SQLITE_IOERR")),
                            ![p].pc = "done", ![p].fault = "statement"]
    /\ UNCHANGED <<accounts, usage_history, nextId, bf, app, nreq, userName,
                   call>>

\* The host process is killed (or the machine stops) between two statements
Crash(p) ==
    /\ host[p].pc \in {"detect", "synthetic1", "synthetic2", "insert", "updateAll"}
    /\ host' = [host EXCEPT ![p].pc = "crashed"]
    /\ UNCHANGED <<accounts, usage_history, nextId, bf, app, nreq, userName,
                   call>>

----------------------------------------------------------------------------
(* The menu-bar app (UsageStore.swift) writes the same file.  Each db.run  *)
(* is a statement that commits on its own; the app runs one operation at a *)
(* time.                                                                   *)

IdleApp == [pc |-> "idle", accountId |-> "default", accountIds |-> <<>>, index |-> 0]

\* updateAccountName: UPDATE accounts SET account_name = newName WHERE id = ?
updateAccountName(accts, accountId, newName) ==
    IF HasRow(accts, accountId)
    THEN [accts EXCEPT ![accountId] =
            Some([RowOf(accts, accountId) EXCEPT !.account_name = Some(newName)])]
    ELSE accts

UpdateAccountName(accountId, newName) ==
    /\ app.pc = "idle"
    /\ accounts' = updateAccountName(accounts, accountId, newName)
    /\ userName' = IF HasRow(accounts, accountId)
                   THEN [userName EXCEPT ![accountId] = Some(newName)]
                   ELSE userName
    /\ nreq' = nreq + 1
    /\ UNCHANGED <<usage_history, nextId, host, bf, app, call>>

\* accountsTable.order(sortOrder.asc): the id sequences the query may return
accountsBySortOrder(accts) ==
    {f \in Orderings(ExistingIds(accts)) :
        \A i, j \in DOMAIN f : i < j =>
            RowOf(accts, f[i]).sort_order <= RowOf(accts, f[j]).sort_order}

\* moveAccountToTop: the query, the guards and the reordering of accountIds
MoveAccountToTop(accountId) ==
    /\ app.pc = "idle"
    /\ \E ids \in accountsBySortOrder(accounts) :
          LET targetIndex == findIndex(ids, accountId)
          IN  app' = IF targetIndex = 0 \/ targetIndex = 1 THEN IdleApp
                     ELSE [pc |-> "move", accountId |-> accountId,
                           accountIds |-> moveToFront(ids, targetIndex),
                           index |-> 1]
    /\ nreq' = nreq + 1
    /\ UNCHANGED <<accounts, usage_history, nextId, host, bf, userName, call>>

\* for (index, accId) in accountIds.enumerated(): one UPDATE, committed
MoveUpdate ==
    /\ app.pc = "move"
    /\ accounts' = updateAccountSortOrder(accounts, app.index - 1,
                                          app.accountIds[app.index])
    /\ app' = IF app.index = Len(app.accountIds) THEN IdleApp
              ELSE [app EXCEPT !.index = @ + 1]
    /\ UNCHANGED <<usage_history, nextId, host, bf, nreq, userName, call>>

\* clearAccountData: DELETE FROM usage_history WHERE account_id = ?
ClearUsage(accountId) ==
    /\ app.pc = "idle"
    /\ usage_history' = usage_history \ RowsOf(usage_history, accountId)
    /\ app' = [IdleApp EXCEPT !.pc = "clear", !.accountId = accountId]
    /\ nreq' = nreq + 1
    /\ UNCHANGED <<accounts, nextId, host, bf, userName, call>>

\* clearAccountData: DELETE FROM accounts WHERE id = ?
ClearAccount ==
    /\ app.pc = "clear"
    /\ accounts' = [accounts EXCEPT ![app.accountId] = Null]
    /\ userName' = [userName EXCEPT ![app.accountId] = Null]
    /\ app' = IdleApp
    /\ UNCHANGED <<usage_history, nextId, host, bf, nreq, call>>

\* loadHistory(for:daysBack:minChangePercent:) with its default arguments
daysBack == 7
minChangePercent == 1

Abs(x) == IF x < 0 THEN 0 - x ELSE x

\* usageTable.filter(accountIdCol == accountId && timestamp >= cutoffString)
\* .order(timestamp.asc): the row sequences the query may return
chartRows(rows, accountId, cutoff) ==
    LET mine == {r \in RowsOf(rows, accountId) : TsLeq(cutoff, r.timestamp)}
    IN  {g \in Orderings(mine) :
            \A i, j \in DOMAIN g : i < j => TsLeq(g[i].timestamp, g[j].timestamp)}

\* if let percent = row[weeklyAllPercent], let date = parseDate(row[timestamp])
\* { rawPoints.append((date, percent)) }, from row i on.  A point also keeps
\* the is_synthetic of its row, which the app does not read.
RECURSIVE rawPointsFrom(_, _)
rawPointsFrom(g, i) ==
    IF i > Len(g) THEN <<>>
    ELSE IF ~IsNull(g[i].weekly_all_percent) /\ IsValid(g[i].timestamp)
    THEN <<[timestamp |-> g[i].timestamp, percent |-> Val(g[i].weekly_all_percent),
            synthetic |-> g[i].is_synthetic]>> \o rawPointsFrom(g, i + 1)
    ELSE rawPointsFrom(g, i + 1)

\* The change filter, from point i on, with the points kept so far
RECURSIVE filterFrom(_, _, _, _)
filterFrom(rawPoints, i, filteredPoints, lastKeptPercent) ==
    IF i > Len(rawPoints) THEN filteredPoints
    ELSE IF i = 1 \/ i = Len(rawPoints)
    THEN filterFrom(rawPoints, i + 1, Append(filteredPoints, rawPoints[i]),
                    rawPoints[i].percent)
    ELSE IF Abs(rawPoints[i].percent - lastKeptPercent) >= minChangePercent
    THEN filterFrom(rawPoints, i + 1, Append(filteredPoints, rawPoints[i]),
                    rawPoints[i].percent)
    ELSE IF Abs(rawPoints[i + 1].percent - rawPoints[i].percent) >= minChangePercent
    THEN filterFrom(rawPoints, i + 1, Append(filteredPoints, rawPoints[i]),
                    rawPoints[i].percent)
    ELSE filterFrom(rawPoints, i + 1, filteredPoints, lastKeptPercent)

\* delta = diff > 0 ? diff : 0, and 0 for the first point
usageDeltaAt(filteredPoints, i) ==
    IF i > 1 /\ filteredPoints[i].percent - filteredPoints[i - 1].percent > 0
    THEN filteredPoints[i].percent - filteredPoints[i - 1].percent
    ELSE 0

dataPoints(filteredPoints) ==
    [i \in DOMAIN filteredPoints |->
        [timestamp |-> filteredPoints[i].timestamp,
         weeklyPercent |-> filteredPoints[i].percent,
         usageDelta |-> usageDeltaAt(filteredPoints, i),
         synthetic |-> filteredPoints[i].synthetic]]

\* loadHistory: the data points for the rows g the query returned
loadHistory(g) == dataPoints(filterFrom(rawPointsFrom(g, 1), 1, <<>>, 0))

\* The app loads the chart of an account at the instant now, on a read-only
\* connection
LoadHistory(accountId, now) ==
    /\ app.pc = "idle"
    /\ \E g \in chartRows(usage_history, accountId, PlusSeconds(now, 0 - daysBack * Day)) :
          call' = [fn |-> "loadHistory", text |-> Null, ref |-> now,
                   result |-> Some(loadHistory(g))]
    /\ nreq' = nreq + 1
    /\ UNCHANGED <<accounts, usage_history, nextId, host, bf, app, userName>>

\* The app is killed between two statements of an operation
AppCrash ==
    /\ app.pc \in {"move", "clear"}
    /\ app' = IdleApp
    /\ UNCHANGED <<accounts, usage_history, nextId, host, bf, nreq, userName,
                   call>>

----------------------------------------------------------------------------
(* The backfill script (backfill-resets.cjs): one process, every statement *)
(* committed on its own.                                                   *)

\* startRows, inserted, endRows and clean are history of the current run (the
\* table at its start, the rows it inserted, the table at its end, whether
\* nothing else wrote the table meanwhile); prevEnd, prevClean and
\* prevInserted are those of the run that finished before it started
IdleBackfill ==
    [pc |-> "idle", readings |-> <<>>, i |-> 0, resetTime |-> Null,
     syntheticCount |-> 0, startRows |-> {}, inserted |-> {}, endRows |-> {},
     clean |-> FALSE, prevEnd |-> Null, prevClean |-> FALSE,
     prevInserted |-> {}]

\* TEXT order of the account ids of the model
idRank == [acct1 |-> 1, acct2 |-> 2, default |-> 3]

\* SELECT * FROM usage_history WHERE is_synthetic = 0 OR is_synthetic IS NULL
\* ORDER BY account_id, timestamp ASC : the sequences the query returns.
\* Rows of equal account_id and timestamp come out in rowid order, the order
\* in which the scan feeds them to the sorter.
realReadings(rows) ==
    {f \in Orderings({r \in rows : r.is_synthetic = 0}) :
        \A i, j \in DOMAIN f : i < j =>
            \/ idRank[f[i].account_id] < idRank[f[j].account_id]
            \/ /\ f[i].account_id = f[j].account_id
               /\ TsLess(f[i].timestamp, f[j].timestamp)
            \/ /\ f[i].account_id = f[j].account_id
               /\ f[i].timestamp = f[j].timestamp
               /\ f[i].id < f[j].id}

\* The guard looks 60000 ms to either side of the reset time
guardWindow == 60

\* existingCount that looks at the real readings only
existingCount_realOnly(rows, accountId, resetTime) ==
    Cardinality({r \in RowsOf(rows, accountId) :
                    /\ r.is_synthetic = 0
                    /\ TsLeq(PlusSeconds(resetTime, 0 - guardWindow), r.timestamp)
                    /\ TsLeq(r.timestamp, PlusSeconds(resetTime, guardWindow))})

\* SELECT COUNT(*) ... WHERE account_id = ? AND is_synthetic = 1
\* AND timestamp BETWEEN resetTime - 60 s AND resetTime + 60 s
existingCount(rows, accountId, resetTime) ==
    Cardinality({r \in RowsOf(rows, accountId) :
                    /\ r.is_synthetic = 1
                    /\ TsLeq(PlusSeconds(resetTime, 0 - guardWindow), r.timestamp)
                    /\ TsLeq(r.timestamp, PlusSeconds(resetTime, guardWindow))})

\* The drop test of the loop body for readings[i - 1] and readings[i]
backfillReset(prev, curr) ==
    /\ prev.account_id = curr.account_id
    /\ ~IsNull(prev.weekly_all_percent)
    /\ ~IsNull(curr.weekly_all_percent)
    /\ Val(prev.weekly_all_percent) - Val(curr.weekly_all_percent) > resetThreshold

\* The script starts: the SELECT of all real readings
BackfillStart ==
    /\ bf.pc \in {"idle", "done", "failed"}
    /\ \E readings \in realReadings(usage_history) :
          bf' = [IdleBackfill EXCEPT
                    !.pc = "loop", !.readings = readings, !.i = 1,
                    !.startRows = usage_history,
                    !.prevEnd = IF bf.pc = "idle" THEN Null ELSE Some(bf.endRows),
                    !.prevClean = bf.clean,
                    !.prevInserted = bf.inserted]
    /\ nreq' = nreq + 1
    /\ UNCHANGED <<accounts, usage_history, nextId, host, app, userName, call>>

\* The end of a run: db.close(), or the uncaught exception
finishRun(pc) ==
    [bf EXCEPT !.pc = pc, !.endRows = usage_history,
               !.clean = (usage_history = bf.startRows \cup bf.inserted)]

\* One pass of the for loop up to the guard query; an Invalid Date makes
\* toISOString() throw, which nothing catches
BackfillLoop ==
    /\ bf.pc = "loop"
    /\ IF bf.i > Len(bf.readings) THEN bf' = finishRun("done")
       ELSE IF bf.i = 1 \/ ~backfillReset(bf.readings[bf.i - 1], bf.readings[bf.i])
       THEN bf' = [bf EXCEPT !.i = @ + 1]
       ELSE LET prev == bf.readings[bf.i - 1]
                curr == bf.readings[bf.i]
                resetTime == parseResetTime(prev.weekly_reset, prev.timestamp)
            IN  IF IsNull(resetTime) THEN bf' = [bf EXCEPT !.i = @ + 1]
                ELSE IF ~IsValid(Val(resetTime)) THEN bf' = finishRun("failed")
                ELSE IF existingCount(usage_history, curr.account_id, Val(resetTime)) = 0
                THEN bf' = [bf EXCEPT !.pc = "point1", !.resetTime = resetTime]
                ELSE bf' = [bf EXCEPT !.i = @ + 1]
    /\ UNCHANGED <<accounts, usage_history, nextId, host, app, nreq, userName,
                   call>>

\* Point 1: At reset time, previous usage level
BackfillPoint1 ==
    LET prev == bf.readings[bf.i - 1]
        row == levelPoint(nextId, bf.readings[bf.i].account_id, Val(bf.resetTime), prev)
    IN
    /\ bf.pc = "point1"
    /\ IF foreignKeyOk(accounts, row.account_id)
       THEN /\ usage_history' = usage_history \cup {row}
            /\ nextId' = nextId + 1
            /\ bf' = [bf EXCEPT !.pc = "point2", !.inserted = @ \cup {row}]
       ELSE /\ bf' = finishRun("failed")
            /\ UNCHANGED <<usage_history, nextId>>
    /\ UNCHANGED <<accounts, host, app, nreq, userName, call>>

\* Point 2: 1 second later, at 0%; syntheticCount += 2
BackfillPoint2 ==
    LET row == zeroPoint(nextId, bf.readings[bf.i].account_id, Val(bf.resetTime))
    IN
    /\ bf.pc = "point2"
    /\ IF foreignKeyOk(accounts, row.account_id)
       THEN /\ usage_history' = usage_history \cup {row}
            /\ nextId' = nextId + 1
            /\ bf' = [bf EXCEPT !.pc = "loop", !.i = @ + 1,
                                !.inserted = @ \cup {row},
                                !.syntheticCount = @ + 2]
       ELSE /\ bf' = finishRun("failed")
            /\ UNCHANGED <<usage_history, nextId>>
    /\ UNCHANGED <<accounts, host, app, nreq, userName, call>>

\* The script is killed between its two inserts
BackfillCrash ==
    /\ bf.pc \in {"point1", "point2"}
    /\ bf' = [IdleBackfill EXCEPT !.pc = "idle"]
    /\ UNCHANGED <<accounts, usage_history, nextId, host, app, nreq, userName,
                   call>>

----------------------------------------------------------------------------
(* The transport: getMessage and main.  A byte of the length prefix is a   *)
(* number; a byte of the payload is a symbol of a small JSON: the text of  *)
(* an object is "{", a type symbol, an optional account symbol "a", an     *)
(* optional data symbol "D", "}"; a run of "1" is a number and "N" is      *)
(* null.  Anything else is a SyntaxError of JSON.parse.                    *)

typeOfSymbol == [U |-> "USAGE_UPDATE", G |-> "GET_DATA", H |-> "GET_HISTORY",
                 R |-> "REORDER_ACCOUNT", X |-> "PING"]

\* The readings carried by the data symbols "D" and "d"
wireData ==
    [D |-> [timestamp |-> Null, primaryPercent |-> Some(52),
            sessionPercent |-> Null, weeklyAllPercent |-> Some(50),
            weeklySonnetPercent |-> Null, sessionReset |-> Null,
            weeklyReset |-> Some(RelText(1, Null)), sections |-> Null,
            rawText |-> Null, accountName |-> Null, email |-> Null,
            plan |-> Null],
     d |-> [timestamp |-> Null, primaryPercent |-> Some(12),
            sessionPercent |-> Null, weeklyAllPercent |-> Some(10),
            weeklySonnetPercent |-> Null, sessionReset |-> Null,
            weeklyReset |-> Null, sections |-> Null,
            rawText |-> Null, accountName |-> Null, email |-> Null,
            plan |-> Null]]

objectBodies == {<<>>, <<"a">>, <<"D">>, <<"d">>, <<"a", "D">>, <<"a", "d">>}

\* JSON.parse(buffer.toString('utf8')): Null for a SyntaxError
parseJSON(bytes) ==
    IF bytes = <<"N">> THEN Some([NoMsg EXCEPT !.json = "null"])
    ELSE IF bytes # <<>> /\ \A i \in DOMAIN bytes : bytes[i] = "1" THEN Some(NoMsg)
    ELSE IF /\ Len(bytes) >= 3
            /\ bytes[1] = "{"
            /\ bytes[Len(bytes)] = "}"
            /\ bytes[2] \in DOMAIN typeOfSymbol
            /\ SubSeq(bytes, 3, Len(bytes) - 1) \in objectBodies
    THEN LET body == SubSeq(bytes, 3, Len(bytes) - 1)
         IN  Some([json |-> "object", type |-> typeOfSymbol[bytes[2]],
                   accountId |-> IF body # <<>> /\ body[1] = "a"
                                 THEN Some("acct1") ELSE Null,
                   data |-> IF body # <<>> /\ body[Len(body)] \in DOMAIN wireData
                            THEN Some(wireData[body[Len(body)]]) ELSE Null,
                   limit |-> Null])
    ELSE Null

\* JSON.stringify(msg) for an object message: the symbols of its text
stringify(msg) ==
    <<"{", CHOOSE c \in DOMAIN typeOfSymbol : typeOfSymbol[c] = msg.type>>
    \o (IF msg.accountId = Null THEN <<>> ELSE <<"a">>)
    \o (IF msg.data = Null THEN <<>>
        ELSE <<CHOOSE c \in DOMAIN wireData : wireData[c] = Val(msg.data)>>)
    \o <<"}">>

\* buffer.writeUInt32LE(length, 0)
writeUInt32LE(n) ==
    <<n % 256, (n \div 256) % 256, (n \div 65536) % 256, (n \div 16777216) % 256>>

\* The four bytes read most significant first
readUInt32LE_bigEndian(b) == b[4] + 256 * b[3] + 65536 * b[2] + 16777216 * b[1]

\* lengthBuffer.readUInt32LE(0)
readUInt32LE(b) == b[1] + 256 * b[2] + 65536 * b[3] + 16777216 * b[4]

Min(a, b) == IF a < b THEN a ELSE b

\* The browser starts a host and will deliver the bytes of stream
Launch(p, stream) ==
    /\ host[p].pc \in {"idle", "done", "crashed"}
    /\ host' = [host EXCEPT ![p] = [IdleHost EXCEPT !.pc = "getMessage",
                                                    !.stream = stream,
                                                    !.stdin = stream]]
    /\ nreq' = nreq + 1
    /\ UNCHANGED <<accounts, usage_history, nextId, bf, app, userName, call>>

\* resolve(JSON.parse(...)) or reject(e) of getMessage's promise, as main sees it
settle(p, h, bytes) ==
    IF IsNull(parseJSON(bytes))
    THEN [host EXCEPT ![p] = [h EXCEPT !.out = Append(@, Failure("SyntaxError")),
                                       !.pc = "done"]]
    ELSE [host EXCEPT ![p] = [h EXCEPT !.msg = Val(parseJSON(bytes)),
                                       !.pc = "process"]]

\* The 'readable' handler for one chunk, the next k bytes of stdin
Readable(p, k) ==
    LET h == host[p]
        chunk == SubSeq(h.stdin, 1, k)
        needed == Min(4 - Len(h.lengthBuffer), k)
        lengthBuffer == IF IsNull(h.messageLength)
                        THEN h.lengthBuffer \o SubSeq(chunk, 1, needed)
                        ELSE h.lengthBuffer
        messageLength == IF IsNull(h.messageLength) /\ Len(lengthBuffer) >= 4
                         THEN Some(readUInt32LE(lengthBuffer))
                         ELSE h.messageLength
        chunks == IF ~IsNull(h.messageLength) THEN h.chunks \o chunk
                  ELSE IF Len(lengthBuffer) >= 4 /\ k > needed
                  THEN h.chunks \o SubSeq(chunk, needed + 1, k)
                  ELSE h.chunks
        straddled == /\ Len(h.lengthBuffer) \in 1..3
                     /\ k > needed
        read == [h EXCEPT !.stdin = SubSeq(h.stdin, k + 1, Len(h.stdin)),
                          !.straddled = @ \/ straddled,
                          !.lengthBuffer = lengthBuffer,
                          !.messageLength = messageLength,
                          !.chunks = chunks]
    IN
    /\ h.pc = "getMessage"
    /\ k \in 1..Len(h.stdin)
    /\ host' = IF ~IsNull(messageLength) /\ Len(chunks) >= Val(messageLength)
               THEN settle(p, read, SubSeq(chunks, 1, Val(messageLength)))
               ELSE [host EXCEPT ![p] = read]
    /\ UNCHANGED <<accounts, usage_history, nextId, bf, app, nreq, userName,
                   call>>

\* The 'end' handler: with no payload byte the promise is never settled, and
\* the process exits when nothing is left to wait for
End(p) ==
    LET h == host[p] IN
    /\ h.pc = "getMessage"
    /\ h.stdin = <<>>
    /\ host' = IF Len(h.chunks) > 0 THEN settle(p, h, h.chunks)
               ELSE [host EXCEPT ![p].pc = "done"]
    /\ UNCHANGED <<accounts, usage_history, nextId, bf, app, nreq, userName,
                   call>>

----------------------------------------------------------------------------
(* Initial state: the tables exist and are empty, nothing runs *)

NoCall == [fn |-> "none", text |-> Null, ref |-> InvalidDate, result |-> Null]

Init ==
    /\ accounts = [id \in AccountIds |-> Null]
    /\ usage_history = {}
    /\ nextId = 1
    /\ host = [p \in Procs |-> IdleHost]
    /\ bf = IdleBackfill
    /\ app = IdleApp
    /\ nreq = 0
    /\ userName = [id \in AccountIds |-> Null]
    /\ call = NoCall

(* Inputs *)

\* A reading as the content script sends it: the percentages other than
\* weeklyAllPercent follow from it, so that the four columns differ
Reading(ts, wAll, wReset, name) ==
    [timestamp |-> ts,
     primaryPercent |-> IF IsNull(wAll) THEN Some(1) ELSE Some(Val(wAll) + 1),
     sessionPercent |-> IF IsNull(wAll) THEN Null ELSE Some(Val(wAll) + 2),
     weeklyAllPercent |-> wAll,
     weeklySonnetPercent |-> IF IsNull(wAll) THEN Null ELSE Some(Val(wAll) + 3),
     sessionReset |-> Null, weeklyReset |-> wReset, sections |-> Null,
     rawText |-> Null, accountName |-> name, email |-> Null, plan |-> Null]

UsageUpdateMsg(accountId, data) ==
    [json |-> "object", type |-> "USAGE_UPDATE", accountId |-> accountId,
     data |-> Some(data), limit |-> Null]

\* Instants of the runs: a Wednesday 10:00:00 and later ones
T0 == 3 * Day + 10 * Hour
Bad == InvalidDate

----------------------------------------------------------------------------
(* Reset detection, one host at a time on one account *)

MaxReadings == 2

DetectTimes == {DateOf(T0), DateOf(T0 + 2 * Hour), Bad}
DetectPercents == {Null, Some(44), Some(45), Some(50)}
DetectTexts == {Null, Some(EmptyText), Some(OtherText),
                Some(RelText(1, Some(30))), Some(AbsText("Wed", 11, 0, "AM"))}

DetectMsgs ==
    {UsageUpdateMsg(Null, Reading(Some(ts), w, t, Null)) :
        ts \in DetectTimes, w \in DetectPercents, t \in DetectTexts}

NextDetect ==
    \/ \E m \in DetectMsgs : nreq < MaxReadings /\ Start(1, m)
    \/ \E now \in DetectTimes : UsageUpdate(1, now)
    \/ DetectReset(1)
    \/ InsertLevelPoint(1)
    \/ InsertZeroPoint(1)
    \/ InsertUsage(1)

SpecDetect == Init /\ [][NextDetect]_vars

\* A host that has answered a record-reading request
Answered(p) ==
    /\ host[p].pc = "done"
    /\ host[p].msg.json = "object"
    /\ host[p].msg.type = "USAGE_UPDATE"
    /\ ~IsNull(host[p].msg.data)
Succeeded(p) == Answered(p) /\ Len(host[p].out) = 1 /\ host[p].out[1].success

\* The readings the account had before the invocation in slot p added its own
Before(p) == RowsOf(usage_history, host[p].accountId) \ host[p].added

\* prev exists, both percentages are present and prev - new > 5
Dropped(prev, new) ==
    /\ ~IsNull(prev.weekly_all_percent)
    /\ ~IsNull(new)
    /\ Val(prev.weekly_all_percent) - Val(new) > 5

\* C5: the resetDetected of a success response is true iff a previous reading
\* (a latest one of the account before the request) exists, its
\* weeklyAllPercent and the new one are present, and previous - new > 5.
C5_ResetIffDropOver5 ==
    \A p \in Procs : Succeeded(p) =>
        LET latest == getLatestUsage(Before(p), host[p].accountId)
            new == host[p].f.weeklyAllPercent
        IN  IF Val(host[p].out[1].resetDetected)
            THEN \E prev \in latest : Dropped(prev, new)
            ELSE latest = {} \/ \E prev \in latest : ~Dropped(prev, new)

C5_Witness ==
    \E p \in Procs :
        /\ Succeeded(p)
        /\ Val(host[p].out[1].resetDetected)
        /\ Val(host[p].f.weeklyAllPercent) = 44

\* C6 (the claim as stated): every answered record-reading request has added
\* exactly one non-synthetic reading, for its account and with its timestamp.
C6_OneRealReadingAlways ==
    \A p \in Procs : Answered(p) =>
        \E r \in host[p].added :
            /\ r.is_synthetic = 0
            /\ r.account_id = host[p].accountId
            /\ r.timestamp = host[p].timestamp
            /\ \A q \in host[p].added : q.is_synthetic = 0 => q = r

\* C7: after a success response with a reset detected and a reset instant R
\* computed, the request has added exactly two synthetic readings: one at R
\* with the previous reading's four percentages, one at R + 1 s with four
\* zeros, both with is_synthetic 1 and NULL session_reset, weekly_reset and
\* raw_data.
C7_TwoSyntheticPoints ==
    \A p \in Procs :
        (Succeeded(p) /\ host[p].resetDetected /\ ~IsNull(host[p].resetTime)) =>
            LET syn == {r \in host[p].added : r.is_synthetic = 1}
                prev == Val(host[p].prevReading)
                R == Val(host[p].resetTime)
            IN  /\ Cardinality(syn) = 2
                /\ \A r \in syn :
                      /\ r.account_id = host[p].accountId
                      /\ r.session_reset = Null
                      /\ r.weekly_reset = Null
                      /\ r.raw_data = Null
                /\ \E r \in syn :
                      /\ r.timestamp = R
                      /\ r.primary_percent = prev.primary_percent
                      /\ r.session_percent = prev.session_percent
                      /\ r.weekly_all_percent = prev.weekly_all_percent
                      /\ r.weekly_sonnet_percent = prev.weekly_sonnet_percent
                /\ \E r \in syn :
                      /\ r.timestamp = DateOf(TimeOf(R) + 1)
                      /\ r.primary_percent = Some(0)
                      /\ r.session_percent = Some(0)
                      /\ r.weekly_all_percent = Some(0)
                      /\ r.weekly_sonnet_percent = Some(0)

C7_Witness ==
    \E p \in Procs :
        /\ Succeeded(p)
        /\ host[p].resetDetected
        /\ ~IsNull(host[p].resetTime)
        /\ Cardinality(host[p].added) = 3

\* The text is absent, empty, or matches neither grammar
NoGrammar(text) == IsNull(text) \/ (IsNull(Val(text).rel) /\ IsNull(Val(text).abs))

\* C8: when a reset is detected and the previous reading's weeklyReset is
\* absent or matches neither grammar, the request adds no synthetic reading,
\* adds its real reading and is answered with a success and no error.
C8_UnparseableSkipsSynthesis ==
    \A p \in Procs :
        (/\ Answered(p)
         /\ host[p].resetDetected
         /\ NoGrammar(Val(host[p].prevReading).weekly_reset)) =>
            /\ Succeeded(p)
            /\ host[p].out[1].error = Null
            /\ Cardinality(host[p].added) = 1
            /\ \A r \in host[p].added :
                  r.is_synthetic = 0 /\ r.timestamp = host[p].timestamp

C8_Witness ==
    \E p \in Procs :
        /\ Answered(p)
        /\ host[p].resetDetected
        /\ Val(host[p].prevReading).weekly_reset = Some(OtherText)
        /\ Cardinality(host[p].added) = 1

----------------------------------------------------------------------------
(* parseResetTime applied to drawn texts and reference instants *)

ParseDays == {"Sun", "Mon", "Tue", "Wed", "Thu", "Fri", "Sat", "thu"}
ParseHours == {12, 1, 9, 11}
ParseMinutes == {0, 30, 59}
ParseAmPm == {"AM", "PM", "pm"}
ParseTexts ==
    {AbsText(d, h, m, ap) : d \in ParseDays, h \in ParseHours,
                            m \in ParseMinutes, ap \in ParseAmPm}
    \cup {RelText(2, Some(30)), RelText(23, Null), RelText(0, Some(5)),
          RelText(167, Some(59)), BothText(2, Some(30), "Thu", 10, 0, "AM"),
          OtherText, EmptyText}

\* Reference instants: each weekday at a few times of day
ParseRefs ==
    {DateOf(d * Day + t) :
        d \in 0..6,
        t \in {0, 9 * Hour, 9 * Hour + 30, 10 * Hour, 12 * Hour + 30 * Minute,
               23 * Hour + 59 * Minute + 59}}

InitParse ==
    /\ accounts = [id \in AccountIds |-> Null]
    /\ usage_history = {}
    /\ nextId = 1
    /\ host = [p \in Procs |-> IdleHost]
    /\ bf = IdleBackfill
    /\ app = IdleApp
    /\ nreq = 0
    /\ userName = [id \in AccountIds |-> Null]
    /\ call \in {[fn |-> "drawn", text |-> Some(t), ref |-> r, result |-> Null] :
                    t \in ParseTexts, r \in ParseRefs}

ApplyParseResetTime ==
    /\ call.fn = "drawn"
    /\ call' = [call EXCEPT !.fn = "parseResetTime",
                            !.result = parseResetTime(call.text, call.ref)]
    /\ UNCHANGED <<accounts, usage_history, nextId, host, bf, app, nreq, userName>>

SpecParse == InitParse /\ [][ApplyParseResetTime]_vars

\* The text is '<Weekday> HH:MM AM|PM' with a weekday name of the table
IsAbsolute(text) ==
    /\ IsNull(text.rel)
    /\ ~IsNull(text.abs)
    /\ Val(text.abs).dayName \in
          {"Sun", "Mon", "Tue", "Wed", "Thu", "Fri", "Sat"}

\* Seconds after midnight of HH:MM on the 12-hour clock
WallClock(a) ==
    ((a.hour % 12) + IF a.ampm \in {"PM", "pm"} THEN 12 ELSE 0) * Hour
        + a.minute * Minute

\* C10: for an absolute text and a reference instant, parseResetTime returns
\* an instant on the named weekday at the named wall-clock time that is later
\* than the reference and at most 7 days later (so the next occurrence); when
\* the weekday is the reference's and the time is not after the reference's
\* time of day, it is that time on the reference day plus 7 days.
C10_NextOccurrence ==
    (call.fn = "parseResetTime" /\ IsAbsolute(Val(call.text))) =>
        LET a == Val(Val(call.text).abs)
            ref == TimeOf(call.ref)
            refDay == ref \div Day
            weekday == CHOOSE n \in 0..6 :
                          <<"Sun", "Mon", "Tue", "Wed", "Thu", "Fri", "Sat">>[n + 1]
                             = a.dayName
        IN  /\ ~IsNull(call.result)
            /\ IsValid(Val(call.result))
            /\ LET R == TimeOf(Val(call.result))
               IN  /\ R > ref
                   /\ R <= ref + 7 * Day
                   /\ (R \div Day) % 7 = weekday
                   /\ R % Day = WallClock(a)
                   /\ (refDay % 7 = weekday /\ WallClock(a) <= ref % Day) =>
                         R = refDay * Day + WallClock(a) + 7 * Day

\* Wednesday 10:00:00 and "Wed 9:00 AM": the next Wednesday 09:00
C10_Witness ==
    /\ call.fn = "parseResetTime"
    /\ call.ref = DateOf(3 * Day + 10 * Hour)
    /\ call.text = Some(AbsText("Wed", 9, 0, "AM"))
    /\ call.result = Some(DateOf(10 * Day + 9 * Hour))

\* The text matches the relative expression 'in H hr [M min]'
IsRelative(text) == ~text.empty /\ ~IsNull(text.rel)

\* C11: for a text the relative expression matches and a reference instant,
\* parseResetTime returns the reference plus H hours and M minutes (M taken
\* as 0 when absent), also when the absolute expression matches the text too.
C11_RelativeAddsOffset ==
    (call.fn = "parseResetTime" /\ IsRelative(Val(call.text))) =>
        LET r == Val(Val(call.text).rel)
            M == IF r.minutes = Null THEN 0 ELSE Val(r.minutes)
        IN  call.result = Some(DateOf(TimeOf(call.ref) + r.hours * 3600 + M * 60))

\* Monday 00:00:00 and 'in 2 hr 30 min': Monday 02:30:00
C11_Witness ==
    /\ call.fn = "parseResetTime"
    /\ call.ref = DateOf(1 * Day)
    /\ call.text = Some(RelText(2, Some(30)))
    /\ call.result = Some(DateOf(1 * Day + 9000))

----------------------------------------------------------------------------
(* One host after another, each fed a byte stream *)

MaxLaunches == 2

\* 4-byte little-endian length, then the payload
Frame(payload) == writeUInt32LE(Len(payload)) \o payload

\* The object messages the symbols can spell
WireMessages ==
    {[json |-> "object", type |-> t, accountId |-> a, data |-> d, limit |-> Null] :
        t \in {typeOfSymbol[c] : c \in DOMAIN typeOfSymbol},
        a \in {Null, Some("acct1")},
        d \in {Null} \cup {Some(wireData[c]) : c \in DOMAIN wireData}}

TransportPayloads ==
    {<<"{", "U", "D", "}">>, <<"{", "U", "a", "d", "}">>, <<"{", "U", "}">>,
     <<"{", "U", "d", "}">>, <<"{", "G", "}">>, <<"{", "H", "a", "}">>, <<"{", "R", "a", "}">>,
     <<"{", "R", "}">>, <<"{", "X", "}">>, <<"1", "1">>, <<"N">>, <<"{", "U">>}

\* Every frame, every frame cut short by the end of the stream, and every
\* frame followed by one more byte
TransportStreams ==
    UNION {{SubSeq(Frame(b), 1, n) : n \in 0..Len(Frame(b))} \cup {Frame(b) \o <<"}">>} :
             b \in TransportPayloads}

TransportClock == {DateOf(T0), DateOf(T0 + 2 * Hour)}

NextTransport ==
    \/ \E stream \in TransportStreams : nreq < MaxLaunches /\ Launch(1, stream)
    \/ \E k \in 1..Len(host[1].stdin) : Readable(1, k)
    \/ End(1)
    \/ \E now \in TransportClock : UsageUpdate(1, now)
    \/ DetectReset(1)
    \/ InsertLevelPoint(1)
    \/ InsertZeroPoint(1)
    \/ InsertUsage(1)
    \/ GetData(1)
    \/ GetHistory(1)
    \/ ReorderAccount(1)
    \/ UpdateAll(1)
    \/ UnknownType(1)

SpecTransport == Init /\ [][NextTransport]_vars

\* C1 (the claim as stated): a host that has exited has written exactly one
\* response, whatever arrived on its stdin.
C1_ExactlyOneResponse ==
    \A p \in Procs : host[p].pc = "done" => Len(host[p].out) = 1

\* a is the beginning of b
IsPrefix(a, b) == Len(a) <= Len(b) /\ SubSeq(b, 1, Len(a)) = a

\* C15: when the bytes delivered to a host begin with the frame of an object
\* message, then however they were split into chunks the host is still
\* reading while it has taken less than the whole frame, and otherwise the
\* message it decoded is that message; bytes after the frame change nothing.
C15_FrameRoundTrip ==
    \A p \in Procs : \A m \in WireMessages :
        LET frame == Frame(stringify(m))
            taken == Len(host[p].stream) - Len(host[p].stdin)
        IN  (host[p].pc # "idle" /\ IsPrefix(frame, host[p].stream)) =>
               IF host[p].pc = "getMessage" THEN taken < Len(frame)
               ELSE host[p].msg = m

\* A frame followed by one more byte has been decoded after a chunk that
\* began inside the length prefix and reached into the payload
C15_Witness ==
    /\ host[1].pc = "process"
    /\ host[1].stream = Frame(stringify(UsageUpdateMsg(Some("acct1"), wireData["d"]))) \o <<"}">>
    /\ host[1].straddled
    /\ host[1].msg = UsageUpdateMsg(Some("acct1"), wireData["d"])

----------------------------------------------------------------------------
(* Hosts one after another on one account, and the backfill script *)

MaxBackfillOps == 4

BackfillTimes == {DateOf(T0), DateOf(T0 + 2 * Hour), Bad}
BackfillMsgs ==
    {UsageUpdateMsg(Null, Reading(Some(ts), Some(10), Null, Null)) :
        ts \in BackfillTimes}
    \cup {UsageUpdateMsg(Null, Reading(Some(ts), Some(50), Some(RelText(1, Some(30))), Null)) :
        ts \in BackfillTimes}

NextBackfill ==
    \/ \E m \in BackfillMsgs : nreq < MaxBackfillOps /\ Start(1, m)
    \/ UsageUpdate(1, DateOf(T0))
    \/ DetectReset(1)
    \/ InsertLevelPoint(1)
    \/ InsertZeroPoint(1)
    \/ InsertUsage(1)
    \/ nreq < MaxBackfillOps /\ BackfillStart
    \/ BackfillLoop
    \/ BackfillPoint1
    \/ BackfillPoint2

SpecBackfill == Init /\ [][NextBackfill]_vars

\* The run that has just ended is the second of two runs over the same store:
\* the previous run ended with no other writer, this one started from the
\* table the previous one left, and no one else has written since
SecondRun ==
    /\ bf.pc \in {"done", "failed"}
    /\ ~IsNull(bf.prevEnd)
    /\ bf.prevClean
    /\ bf.startRows = Val(bf.prevEnd)
    /\ usage_history = bf.startRows \cup bf.inserted

\* C9: the second of two backfill runs over the same store inserts no
\* synthetic reading.
C9_BackfillIdempotent == SecondRun => bf.inserted = {}

\* A second run after a first run that did insert a pair
C9_Witness == SecondRun /\ Cardinality(bf.prevInserted) = 2

----------------------------------------------------------------------------
(* Everything that writes the database file at once: two host processes,   *)
(* the menu-bar app and the backfill script, any of which may be killed    *)
(* between two of its statements.                                          *)

MaxOps == 3

HighReading == Reading(Some(DateOf(T0)), Some(50), Some(RelText(1, Some(30))), Some("auto"))
LowReading == Reading(Some(DateOf(T0 + 2 * Hour)), Some(10), Null, Null)
ReorderMsg(accountId) ==
    [json |-> "object", type |-> "REORDER_ACCOUNT", accountId |-> accountId,
     data |-> Null, limit |-> Null]
ConcMsgs ==
    {UsageUpdateMsg(Null, HighReading), UsageUpdateMsg(Null, LowReading),
     UsageUpdateMsg(Some("acct1"), LowReading), ReorderMsg(Some("acct1"))}

Next ==
    \/ \E p \in Procs, m \in ConcMsgs : nreq < MaxOps /\ Start(p, m)
    \/ \E p \in Procs : UsageUpdate(p, DateOf(T0))
    \/ \E p \in Procs : DetectReset(p)
    \/ \E p \in Procs : InsertLevelPoint(p)
    \/ \E p \in Procs : InsertZeroPoint(p)
    \/ \E p \in Procs : InsertUsage(p)
    \/ \E p \in Procs : ReorderAccount(p)
    \/ \E p \in Procs : UpdateAll(p)
    \/ \E p \in Procs : Crash(p)
    \/ nreq < MaxOps /\ UpdateAccountName("default", "user")
    \/ nreq < MaxOps /\ MoveAccountToTop("acct1")
    \/ MoveUpdate
    \/ nreq < MaxOps /\ ClearUsage("acct1")
    \/ ClearAccount
    \/ AppCrash
    \/ nreq < MaxOps /\ BackfillStart
    \/ BackfillLoop
    \/ BackfillPoint1
    \/ BackfillPoint2
    \/ BackfillCrash

Spec == Init /\ [][Next]_vars

\* The zero point of a synthetic pair carries 0 in every percentage; the
\* level point carries the previous reading's weeklyAllPercent, which is
\* above the threshold
IsZeroPoint(r) == r.is_synthetic = 1 /\ r.weekly_all_percent = Some(0)
IsLevelPoint(r) == r.is_synthetic = 1 /\ r.weekly_all_percent # Some(0)

\* C2: in every committed state of the store a synthetic level point at R
\* has its zero point at R + 1 s and a zero point has its level point: no
\* crash and no concurrent reader sees one of the two without the other.
C2_SyntheticPairAtomic ==
    \A r \in usage_history :
        /\ IsLevelPoint(r) =>
              \E z \in RowsOf(usage_history, r.account_id) :
                  IsZeroPoint(z) /\ z.timestamp = PlusSeconds(r.timestamp, 1)
        /\ IsZeroPoint(r) =>
              \E l \in RowsOf(usage_history, r.account_id) :
                  IsLevelPoint(l) /\ r.timestamp = PlusSeconds(l.timestamp, 1)

\* The sort_order column as a function of the existing accounts
sortOrders(accts) == [id \in ExistingIds(accts) |-> RowOf(accts, id).sort_order]

\* C3: a step of a host that is about to renumber (it has read the accounts
\* and built the new order) either leaves every sort_order as it was or gives
\* every account of the new order that still exists its new sort_order, all
\* in that one step.
C3_ReorderAtomic ==
    [][\A p \in Procs :
          (host[p].pc = "updateAll" /\ host'[p] # host[p]) =>
             \/ sortOrders(accounts') = sortOrders(accounts)
             \/ /\ host'[p].pc = "done"
                /\ \A i \in DOMAIN host[p].reordered :
                      HasRow(accounts', host[p].reordered[i]) =>
                         RowOf(accounts', host[p].reordered[i]).sort_order = i - 1]_vars

\* A reorder that moved acct1 in front of default has been answered
C3_Witness ==
    \E p \in Procs :
        /\ host[p].pc = "done"
        /\ host[p].out = <<Reordered("acct1")>>
        /\ host[p].msg.type = "REORDER_ACCOUNT"
        /\ host[p].reordered = <<"acct1", "default">>
        /\ sortOrders(accounts) = [acct1 |-> 0, default |-> 1]

\* C4: an account whose name the user has set keeps that name, whatever
\* record-reading requests arrive for it afterwards.
C4_UserNameKept ==
    \A id \in AccountIds :
        (HasRow(accounts, id) /\ ~IsNull(userName[id])) =>
            RowOf(accounts, id).account_name = userName[id]

\* A reading that carries another name has been recorded for an account the
\* user had named before
C4_Witness ==
    \E p \in Procs :
        /\ Succeeded(p)
        /\ host[p].msg.type = "USAGE_UPDATE"
        /\ Val(host[p].msg.data).accountName = Some("auto")
        /\ host[p].userSet = Some("user")
        /\ RowOf(accounts, host[p].accountId).account_name = Some("user")

----------------------------------------------------------------------------
(* One host at a time and the menu-bar app: accounts are created, deleted  *)
(* and reordered                                                           *)

MaxOrderOps == 5

PlainReading == Reading(Some(DateOf(T0)), Some(10), Null, Null)
OrderMsgs ==
    {UsageUpdateMsg(a, PlainReading) : a \in {Null, Some("acct1"), Some("acct2")}}
    \cup {ReorderMsg(a) : a \in {Null, Some(""), Some("default"), Some("acct1"),
                                 Some("acct2")}}

NextOrder ==
    \/ \E m \in OrderMsgs : nreq < MaxOrderOps /\ Start(1, m)
    \/ UsageUpdate(1, DateOf(T0))
    \/ DetectReset(1)
    \/ InsertUsage(1)
    \/ ReorderAccount(1)
    \/ UpdateAll(1)
    \/ \E a \in {"default", "acct2"} : nreq < MaxOrderOps /\ MoveAccountToTop(a)
    \/ MoveUpdate
    \/ nreq < MaxOrderOps /\ ClearUsage("default")
    \/ ClearAccount
    \/ AppCrash

SpecOrder == Init /\ [][NextOrder]_vars

\* The step of host p that commits the renumbering, taken while the list the
\* request read is still a list allAccounts() can return
Renumbers(p) ==
    /\ host[p].pc = "updateAll"
    /\ host'[p].pc = "done"
    /\ host[p].listed \in getAllAccounts(accounts)

\* Position of id in the list the request read
ListedAt(p, id) == CHOOSE i \in DOMAIN host[p].listed : host[p].listed[i] = id

\* C12: the renumbering of a reorder-account request for the known account X
\* leaves X with sort_order 0, the sort_order values of the N accounts equal
\* to 0..N-1 without duplicates, and every two other accounts in the order
\* they had in the list the request read.
C12_ReorderResult ==
    [][\A p \in Procs : Renumbers(p) =>
          LET X == host[p].accountId
              ids == ExistingIds(accounts')
              N == Cardinality(ids)
          IN  /\ ids = ExistingIds(accounts)
              /\ RowOf(accounts', X).sort_order = 0
              /\ {RowOf(accounts', id).sort_order : id \in ids} = 0..(N - 1)
              /\ \A a, b \in ids : a # b =>
                    RowOf(accounts', a).sort_order # RowOf(accounts', b).sort_order
              /\ \A a, b \in ids \ {X} :
                    ListedAt(p, a) < ListedAt(p, b) =>
                       RowOf(accounts', a).sort_order < RowOf(accounts', b).sort_order]_vars

\* acct2, last of three accounts, has been moved in front of the other two
C12_Witness ==
    /\ host[1].pc = "done"
    /\ host[1].out = <<Reordered("acct2")>>
    /\ host[1].listed = <<"default", "acct1", "acct2">>
    /\ sortOrders(accounts) = [acct2 |-> 0, default |-> 1, acct1 |-> 2]

\* C13 (the claim as stated): a renumbering for the account that is first in
\* the list the request read changes no account's sort_order.
C13_FirstIsNoOp ==
    [][\A p \in Procs :
          (Renumbers(p) /\ host[p].listed[1] = host[p].accountId) =>
             sortOrders(accounts') = sortOrders(accounts)]_vars

\* The accountId of a reorder-account request is absent or the empty string
MissingAccountId(msg) == msg.accountId = Null \/ msg.accountId = Some("")

\* C14: the step that handles a reorder-account request without an accountId
\* answers {success: false, error: 'accountId required'}, the step that
\* handles one for an account without a row answers success false, and
\* neither changes an account row or a reading.
C14_ReorderRejected ==
    [][\A p \in Procs :
          LET msg == host[p].msg IN
          (/\ host[p].pc = "process"
           /\ msg.json = "object"
           /\ msg.type = "REORDER_ACCOUNT"
           /\ host'[p] # host[p]
           /\ (MissingAccountId(msg) \/ ~HasRow(accounts, Val(msg.accountId)))) =>
             /\ host'[p].pc = "done"
             /\ Len(host'[p].out) = 1
             /\ ~host'[p].out[1].success
             /\ MissingAccountId(msg) =>
                   host'[p].out = <<Failure("accountId required")>>
             /\ accounts' = accounts
             /\ usage_history' = usage_history]_vars

\* A request for acct2 has been refused while two other accounts exist
C14_Witness ==
    /\ host[1].pc = "done"
    /\ host[1].msg = ReorderMsg(Some("acct2"))
    /\ host[1].out = <<Failure("Account not found")>>
    /\ ExistingIds(accounts) = {"default", "acct1"}

----------------------------------------------------------------------------
(* One host at a time handling every kind of message, with storage         *)
(* failures, the app's deletion and the backfill script                    *)

MaxRequests == 4

PlainMsg(type) ==
    [json |-> "object", type |-> type, accountId |-> Null, data |-> Null,
     limit |-> Null]
RequestMsgs ==
    {UsageUpdateMsg(Null, HighReading), UsageUpdateMsg(Null, LowReading),
     PlainMsg("GET_DATA"), PlainMsg("GET_HISTORY"), ReorderMsg(Some("default")),
     PlainMsg("PING"), [NoMsg EXCEPT !.json = "null"], NoMsg}

NextRequests ==
    \/ \E m \in RequestMsgs : nreq < MaxRequests /\ Start(1, m)
    \/ nreq < MaxRequests /\ OpenFails(1)
    \/ StatementFails(1)
    \/ UsageUpdate(1, DateOf(T0))
    \/ DetectReset(1)
    \/ InsertLevelPoint(1)
    \/ InsertZeroPoint(1)
    \/ InsertUsage(1)
    \/ GetData(1)
    \/ GetHistory(1)
    \/ ReorderAccount(1)
    \/ UpdateAll(1)
    \/ UnknownType(1)
    \/ nreq < MaxRequests /\ ClearUsage("default")
    \/ ClearAccount
    \/ nreq < MaxRequests /\ BackfillStart
    \/ BackfillLoop
    \/ BackfillPoint1
    \/ BackfillPoint2

SpecRequests == Init /\ [][NextRequests]_vars

\* C16 (the claim as stated): a host process that has ended after a failure
\* of the storage layer, at its start or in a statement, has written one
\* response with success false and an error.
C16_StorageFailureAnswered ==
    \A p \in Procs :
        (host[p].pc = "done" /\ host[p].fault # "none") =>
            /\ Len(host[p].out) = 1
            /\ ~host[p].out[1].success
            /\ host[p].out[1].error # Null

\* Host p takes a step of a request of the given type
StepOf(p, type) ==
    /\ host'[p] # host[p]
    /\ host[p].pc \notin {"idle", "done", "crashed"}
    /\ host[p].msg.json = "object"
    /\ host[p].msg.type = type

\* C17: no step removes or changes a reading except the app's deletion of
\* the readings of the account it deletes; a real reading appears only in
\* the insert step of a record-reading request, a synthetic one only in the
\* synthetic inserts of a record-reading request that detected a reset or
\* in the two inserts of the backfill; requests of the other kinds and
\* unknown messages leave the readings as they are.
C17_AppendOnly ==
    [][LET gone == usage_history \ usage_history'
           new == usage_history' \ usage_history
       IN  /\ gone # {} =>
                 /\ app.pc = "idle"
                 /\ app'.pc = "clear"
                 /\ \A r \in gone : r.account_id = app'.accountId
           /\ \A r \in new :
                 IF r.is_synthetic = 0
                 THEN \E p \in Procs :
                         StepOf(p, "USAGE_UPDATE") /\ host[p].pc = "insert"
                 ELSE \/ \E p \in Procs :
                            /\ StepOf(p, "USAGE_UPDATE")
                            /\ host[p].pc \in {"synthetic1", "synthetic2"}
                            /\ host[p].resetDetected
                      \/ bf.pc \in {"point1", "point2"} /\ bf' # bf
           /\ \A p \in Procs :
                 (host'[p] # host[p] /\ host[p].pc = "process"
                    /\ ~StepOf(p, "USAGE_UPDATE")) =>
                       usage_history' = usage_history
           /\ \A p \in Procs :
                 (StepOf(p, "REORDER_ACCOUNT") \/ StepOf(p, "GET_DATA")
                    \/ StepOf(p, "GET_HISTORY")) =>
                       usage_history' = usage_history]_vars

\* Readings of all three origins are in the store: a real one, a pair made
\* by a request and a pair made by the backfill
C17_Witness ==
    /\ bf.pc = "done"
    /\ Cardinality(bf.inserted) = 2
    /\ bf.inserted \subseteq usage_history
    /\ \E r \in usage_history : r.is_synthetic = 0

\* The message of host p is a JSON value other than null whose type is none
\* of the four known kinds (a value without a type included)
HasUnknownType(p) ==
    /\ host[p].msg.json # "null"
    /\ host[p].msg.json = "object" => host[p].msg.type \notin KnownTypes

C19_DeleteAtomic ==
    [][\A a \in AccountIds :
          (/\ HasRow(accounts, a)
           /\ RowsOf(usage_history, a) # {}
           /\ RowsOf(usage_history', a) = {}) => ~HasRow(accounts', a)]_vars

----------------------------------------------------------------------------
(* One host at a time recording readings that carry an email and a plan *)

MaxProfileOps == 3

ProfileReading(email, plan) == [PlainReading EXCEPT !.email = email, !.plan = plan]
ProfileMsgs ==
    {UsageUpdateMsg(Null, ProfileReading(e[1], e[2])) :
        e \in {<<Null, Null>>, <<Some(""), Some("")>>, <<Some("a@x"), Null>>,
               <<Null, Some("pro")>>, <<Some("b@x"), Some("max")>>}}

NextProfile ==
    \/ \E m \in ProfileMsgs : nreq < MaxProfileOps /\ Start(1, m)
    \/ UsageUpdate(1, DateOf(T0))
    \/ DetectReset(1)
    \/ InsertUsage(1)

SpecProfile == Init /\ [][NextProfile]_vars

\* The value is null, absent or the empty string
Blank(x) == x = Null \/ x = Some("")

\* C20: the upsert step of a record-reading request for an account that has
\* a row keeps the stored email when the request's email is null, absent or
\* empty and stores the request's email otherwise; the same for the plan.
C20_EmailPlanCoalesce ==
    [][\A p \in Procs :
          LET id == accountIdOf(host[p].msg)
              d == Val(host[p].msg.data)
          IN  (/\ StepOf(p, "USAGE_UPDATE")
               /\ host[p].pc = "process"
               /\ host'[p].pc = "detect"
               /\ HasRow(accounts, id)) =>
                 /\ RowOf(accounts', id).email =
                       IF Blank(d.email) THEN RowOf(accounts, id).email ELSE d.email
                 /\ RowOf(accounts', id).plan =
                       IF Blank(d.plan) THEN RowOf(accounts, id).plan ELSE d.plan]_vars

\* After a request with a@x and one with b@x and max, a request with empty
\* email and plan has been recorded and b@x and max are still stored
C20_Witness ==
    /\ host[1].pc = "done"
    /\ Val(host[1].msg.data).email = Some("")
    /\ RowOf(accounts, "default").email = Some("b@x")
    /\ RowOf(accounts, "default").plan = Some("max")
    /\ \E r \in usage_history : Val(r.raw_data).email = Some("a@x")

----------------------------------------------------------------------------
(* One host at a time recording readings of two accounts and fetching the  *)
(* accounts and the history, with the app's move-to-top                    *)

MaxFetchOps == 4

HistoryMsg(accountId, limit) ==
    [json |-> "object", type |-> "GET_HISTORY", accountId |-> accountId,
     data |-> Null, limit |-> limit]
FetchMsgs ==
    {UsageUpdateMsg(Null, Reading(Some(DateOf(T0)), Some(50), Some(RelText(1, Some(30))), Null)),
     UsageUpdateMsg(Null, Reading(Some(DateOf(T0 + 2 * Hour)), Some(10), Null, Null)),
     UsageUpdateMsg(Null, Reading(Some(DateOf(T0)), Some(10), Null, Null)),
     UsageUpdateMsg(Some("acct1"), Reading(Some(DateOf(T0)), Some(10), Null, Null)),
     UsageUpdateMsg(Some("acct1"), Reading(Some(DateOf(T0 + 2 * Hour)), Some(50), Null, Null)),
     PlainMsg("GET_DATA"),
     HistoryMsg(Null, Null), HistoryMsg(Null, Some(0)), HistoryMsg(Null, Some(1)),
     HistoryMsg(Null, Some(2)), HistoryMsg(Some("acct1"), Some(1)),
     HistoryMsg(Some("acct2"), Null)}

NextFetch ==
    \/ \E m \in FetchMsgs : nreq < MaxFetchOps /\ Start(1, m)
    \/ UsageUpdate(1, DateOf(T0))
    \/ DetectReset(1)
    \/ InsertLevelPoint(1)
    \/ InsertZeroPoint(1)
    \/ InsertUsage(1)
    \/ GetData(1)
    \/ GetHistory(1)
    \/ nreq < MaxFetchOps /\ MoveAccountToTop("acct1")
    \/ MoveUpdate
    \/ AppCrash

SpecFetch == Init /\ [][NextFetch]_vars

\* The limit N of a fetch-history request: the one it carries, 100 when it
\* carries none
RequestedLimit(msg) == IF msg.limit = Null THEN 100 ELSE Val(msg.limit)

\* C21 (the claim as stated): the step that answers a fetch-history request
\* for account A with limit N returns at most N readings, each a different
\* reading of A, in descending order of timestamp, as many as A has up to N,
\* and no reading of A that is left out is more recent than a returned one;
\* for every N, 0 included, and 100 for an absent limit.
C21_HistoryMostRecent ==
    [][\A p \in Procs :
          (StepOf(p, "GET_HISTORY") /\ host'[p].pc = "done") =>
             LET A == accountIdOf(host[p].msg)
                 N == RequestedLimit(host[p].msg)
                 mine == RowsOf(usage_history, A)
                 history == Val(host'[p].out[1].body)
                 returned == {history[i] : i \in DOMAIN history}
             IN  /\ host'[p].out[1].success
                 /\ Len(history) <= N
                 /\ Len(history) = Min(N, Cardinality(mine))
                 /\ returned \subseteq mine
                 /\ Cardinality(returned) = Len(history)
                 /\ \A i, j \in DOMAIN history : i < j =>
                       TsLeq(history[j].timestamp, history[i].timestamp)
                 /\ \A r \in mine \ returned : \A q \in returned :
                       TsLeq(r.timestamp, q.timestamp)]_vars

\* C22: the step that answers a fetch-accounts request lists every account
\* that has a row exactly once, by sort_order ascending and, among equal
\* sort_order, by last_updated descending, each with the primary_percent of
\* a reading of the account that has the greatest timestamp, null when the
\* account has no reading.
C22_AccountsListed ==
    [][\A p \in Procs :
          (StepOf(p, "GET_DATA") /\ host'[p].pc = "done") =>
             LET list == Val(host'[p].out[1].body)
             IN  /\ host'[p].out[1].success
                 /\ {list[i].id : i \in DOMAIN list} = ExistingIds(accounts)
                 /\ Len(list) = Cardinality(ExistingIds(accounts))
                 /\ \A i, j \in DOMAIN list : i < j =>
                       LET a == RowOf(accounts, list[i].id)
                           b == RowOf(accounts, list[j].id)
                       IN  /\ a.sort_order <= b.sort_order
                           /\ a.sort_order = b.sort_order =>
                                 TsLeq(b.last_updated, a.last_updated)
                 /\ \A i \in DOMAIN list :
                       LET mine == RowsOf(usage_history, list[i].id)
                       IN  IF mine = {} THEN list[i].latestPercent = Null
                           ELSE \E r \in mine :
                                   /\ \A q \in mine : TsLeq(q.timestamp, r.timestamp)
                                   /\ list[i].latestPercent = r.primary_percent]_vars

\* Two accounts of equal sort_order (the app stopped in the middle of a
\* move-to-top) have been listed, the one updated later first
C22_Witness ==
    /\ host[1].pc = "done"
    /\ host[1].msg = PlainMsg("GET_DATA")
    /\ Len(host[1].out) = 1
    /\ Len(Val(host[1].out[1].body)) = 2
    /\ RowOf(accounts, "default").sort_order = RowOf(accounts, "acct1").sort_order
    /\ Val(host[1].out[1].body)[1].id = "acct1"
    /\ Val(host[1].out[1].body)[1].lastUpdated = DateOf(T0 + 2 * Hour)
    /\ Val(host[1].out[1].body)[2].lastUpdated = DateOf(T0)

----------------------------------------------------------------------------
(* One host at a time recording readings with and without a timestamp, a   *)
(* name, an email and a plan                                               *)

MaxUpsertOps == 3

\* A reading with or without its own timestamp and its profile fields
UpsertReading(ts, profile) ==
    [Reading(ts, Some(10), Null, IF profile THEN Some("auto") ELSE Null)
        EXCEPT !.email = IF profile THEN Some("a@x") ELSE Null,
               !.plan = IF profile THEN Some("pro") ELSE Null]
UpsertMsgs ==
    {UsageUpdateMsg(a, UpsertReading(ts, profile)) :
        a \in {Null, Some("acct1")},
        ts \in {Null, Some(DateOf(T0)), Some(DateOf(T0 + 2 * Hour))},
        profile \in BOOLEAN}
UpsertClock == {DateOf(T0 + Hour), DateOf(T0 + 3 * Hour)}

NextUpsert ==
    \/ \E m \in UpsertMsgs : nreq < MaxUpsertOps /\ Start(1, m)
    \/ \E now \in UpsertClock : UsageUpdate(1, now)
    \/ DetectReset(1)
    \/ InsertUsage(1)

SpecUpsert == Init /\ [][NextUpsert]_vars

\* The step of host p that runs the upsert of a record-reading request
Upserts(p) ==
    /\ StepOf(p, "USAGE_UPDATE")
    /\ host[p].pc = "process"
    /\ host'[p].pc = "detect"

\* C23: the upsert step of a record-reading request for an account leaves
\* the account's last_updated equal to the timestamp of that reading (the
\* one the request carries, else the clock's, which is also the timestamp of
\* the reading it stores), whether or not it carries a name, an email or a
\* plan; no other step changes the last_updated of an account.
C23_LastUpdatedFollows ==
    [][\A id \in AccountIds :
          IF \E p \in Procs : Upserts(p) /\ accountIdOf(host[p].msg) = id
          THEN \A p \in Procs : (Upserts(p) /\ accountIdOf(host[p].msg) = id) =>
                  LET d == Val(host[p].msg.data)
                  IN  /\ HasRow(accounts', id)
                      /\ RowOf(accounts', id).last_updated = host'[p].timestamp
                      /\ d.timestamp # Null => host'[p].timestamp = Val(d.timestamp)
                      /\ d.timestamp = Null => host'[p].timestamp \in UpsertClock
          ELSE (HasRow(accounts, id) /\ HasRow(accounts', id)) =>
                  RowOf(accounts', id).last_updated = RowOf(accounts, id).last_updated]_vars

\* A reading without name, email, plan or timestamp has been recorded for an
\* account that had a reading of 12:00: last_updated is the clock's 11:00
C23_Witness ==
    /\ Succeeded(1)
    /\ host[1].accountId = "default"
    /\ Val(host[1].msg.data) = UpsertReading(Null, FALSE)
    /\ \E r \in usage_history \ host[1].added :
          r.account_id = "default" /\ r.timestamp = DateOf(T0 + 2 * Hour)
    /\ RowOf(accounts, "default").last_updated = DateOf(T0 + Hour)
    /\ \E r \in host[1].added : r.timestamp = DateOf(T0 + Hour)

\* C24: the upsert step of a record-reading request for an account id without
\* a row creates the row with a sort_order one above the greatest sort_order
\* of the existing accounts (0 when there is none) and leaves theirs as they
\* were; the upsert step for an account that has a row changes no sort_order.
C24_SortOrderAtCreation ==
    [][\A p \in Procs : Upserts(p) =>
          LET id == accountIdOf(host[p].msg)
              others == ExistingIds(accounts) \ {id}
          IN  /\ ExistingIds(accounts') = ExistingIds(accounts) \cup {id}
              /\ \A o \in others :
                    RowOf(accounts', o).sort_order = RowOf(accounts, o).sort_order
              /\ IF HasRow(accounts, id)
                 THEN RowOf(accounts', id).sort_order = RowOf(accounts, id).sort_order
                 ELSE IF others = {} THEN RowOf(accounts', id).sort_order = 0
                 ELSE /\ \A o \in others :
                            RowOf(accounts, o).sort_order < RowOf(accounts', id).sort_order
                      /\ \E o \in others :
                            RowOf(accounts, o).sort_order + 1 = RowOf(accounts', id).sort_order]_vars

\* After the account with sort_order 0 was deleted, acct2 has been created
\* next to acct1 (sort_order 1) with sort_order 2
C24_Witness ==
    /\ Succeeded(1)
    /\ host[1].accountId = "acct2"
    /\ sortOrders(accounts) = [acct1 |-> 1, acct2 |-> 2]

----------------------------------------------------------------------------
(* One host at a time recording readings of one account, and the app       *)
(* loading the chart                                                       *)

MaxChartOps == 4

ChartMsgs ==
    {UsageUpdateMsg(Null, Reading(Some(DateOf(T0)), Some(50), Some(RelText(1, Some(30))), Null)),
     UsageUpdateMsg(Null, Reading(Some(DateOf(T0 + Hour)), Some(10), Null, Null)),
     UsageUpdateMsg(Null, Reading(Some(DateOf(T0 + 2 * Hour)), Some(10), Null, Null)),
     UsageUpdateMsg(Null, Reading(Some(DateOf(T0 + 3 * Hour)), Some(12), Null, Null)),
     UsageUpdateMsg(Null, Reading(Some(DateOf(T0 + 3 * Hour)), Null, Null, Null))}
ChartClock == {DateOf(T0 + 4 * Hour), DateOf(T0 + daysBack * Day + Hour)}

NextChart ==
    \/ \E m \in ChartMsgs : nreq < MaxChartOps /\ Start(1, m)
    \/ UsageUpdate(1, DateOf(T0))
    \/ DetectReset(1)
    \/ InsertLevelPoint(1)
    \/ InsertZeroPoint(1)
    \/ InsertUsage(1)
    \/ \E now \in ChartClock : nreq < MaxChartOps /\ LoadHistory("default", now)

SpecChart == Init /\ [][NextChart]_vars

\* C25 (the claim as stated): in the data points loadHistory returns, a point
\* loaded from a synthetic reading has usageDelta 0, wherever the synthetic
\* pair lies among the real readings, so that the total of usageDelta is that
\* of the points loaded from real readings.
C25_SyntheticDeltaZero ==
    call.fn = "loadHistory" =>
        \A i \in DOMAIN Val(call.result) :
            Val(call.result)[i].synthetic = 1 => Val(call.result)[i].usageDelta = 0

----------------------------------------------------------------------------
(* Claims about the two hosts, the app and the backfill running at once    *)
(* (specification Spec)                                                    *)

\* The synthetic pair the invocation in slot p has stored, when it stored both
\* points and both are in the table
StoredPair(p) ==
    LET syn == {r \in host[p].added : r.is_synthetic = 1}
    IN  Cardinality(syn) = 2 /\ syn \subseteq usage_history

\* C26 (the claim as stated): two host processes that handle record-reading
\* requests for the same account and took the same reading P as the previous
\* one never both store a synthetic pair: the table holds at most one pair
\* computed from P.
C26_OnePairPerPrevious ==
    \A p, q \in Procs :
        (/\ p # q
         /\ host[p].accountId = host[q].accountId
         /\ host[p].prevReading # Null
         /\ host[p].prevReading = host[q].prevReading) =>
            ~(StoredPair(p) /\ StoredPair(q))

----------------------------------------------------------------------------
(* Live detection against the backfill.  Each reading is recorded for      *)
(* 'default' by the current host and then for 'acct1' by the earlier       *)
(* version of the host, which stores it without detection; the backfill    *)
(* runs once at the end.  The readings arrive in the order of their        *)
(* timestamps.                                                             *)

MaxAgreeReadings == 3

AgreeMsgs ==
    {UsageUpdateMsg(Null, Reading(Some(DateOf(T0 + k * Hour)), Some(w[1]), w[2], Null)) :
        k \in 0..2,
        w \in {<<50, Some(RelText(1, Some(30)))>>, <<44, Some(RelText(1, Null))>>,
               <<10, Null>>}}

\* The same message for the account the earlier host writes
Mirror(m) == [m EXCEPT !.accountId = Some("acct1")]

Quiet(p) == host[p].pc \in {"idle", "done"}

\* The reading of message m is later than every real reading of the account
LaterThanStored(m) ==
    \A r \in RowsOf(usage_history, accountIdOf(m)) :
        r.is_synthetic = 0 => TsLess(r.timestamp, Val(Val(m.data).timestamp))

NextAgree ==
    \/ \E m \in AgreeMsgs :
          /\ nreq < 2 * MaxAgreeReadings
          /\ nreq % 2 = 0
          /\ bf.pc = "idle"
          /\ Quiet(2)
          /\ LaterThanStored(m)
          /\ Start(1, m)
    \/ /\ nreq % 2 = 1
       /\ bf.pc = "idle"
       /\ host[1].pc = "done"
       /\ Start(2, Mirror(host[1].msg))
    \/ UsageUpdate(1, DateOf(T0))
    \/ UsageUpdate(2, DateOf(T0))
    \/ DetectReset(1)
    \/ StoreWithoutDetection(2)
    \/ InsertLevelPoint(1)
    \/ InsertZeroPoint(1)
    \/ InsertUsage(1)
    \/ InsertUsage(2)
    \/ /\ nreq % 2 = 0
       /\ nreq > 0
       /\ bf.pc = "idle"
       /\ Quiet(1)
       /\ Quiet(2)
       /\ BackfillStart
    \/ BackfillLoop
    \/ BackfillPoint1
    \/ BackfillPoint2

SpecAgree == Init /\ [][NextAgree]_vars

\* What a synthetic reading says: its instant and its four percentages
SyntheticContent(r) ==
    [timestamp |-> r.timestamp, primary_percent |-> r.primary_percent,
     session_percent |-> r.session_percent,
     weekly_all_percent |-> r.weekly_all_percent,
     weekly_sonnet_percent |-> r.weekly_sonnet_percent]

\* The synthetic readings live detection had stored for 'default' when the
\* backfill started, and those the backfill stored for 'acct1'
LiveSynthetic ==
    {SyntheticContent(r) : r \in {q \in RowsOf(bf.startRows, "default") : q.is_synthetic = 1}}
BackfillSynthetic ==
    {SyntheticContent(r) : r \in RowsOf(bf.inserted, "acct1")}

\* The backfill has run to its end over a table in which 'acct1' holds, with
\* no synthetic reading, the real readings 'default' holds
SameReadingsBackfilled ==
    /\ bf.pc = "done"
    /\ \A r \in RowsOf(bf.startRows, "acct1") : r.is_synthetic = 0
    /\ {r.raw_data : r \in RowsOf(bf.startRows, "acct1")}
          = {r.raw_data : r \in {q \in RowsOf(bf.startRows, "default") : q.is_synthetic = 0}}
    /\ Cardinality(RowsOf(bf.startRows, "acct1"))
          = Cardinality({q \in RowsOf(bf.startRows, "default") : q.is_synthetic = 0})

\* C27 (the claim as stated, for readings that arrive in timestamp order):
\* the synthetic readings stored by recording a sequence of real readings
\* one by one are those the backfill stores when run once over the same real
\* readings stored without detection.
C27_LiveAgreesWithBackfill ==
    SameReadingsBackfilled => LiveSynthetic = BackfillSynthetic

----------------------------------------------------------------------------
(* Where the synthetic pair lies (specification SpecChart)                 *)

\* C28 (the claim as stated): when a record-reading request has detected a
\* reset against the previous reading P, computed the instant R and stored
\* the pair and its reading N, then P.timestamp <= R and R + 1 s <=
\* N.timestamp: the pair lies between the two readings that triggered it.
C28_PairBetweenReadings ==
    \A p \in Procs :
        (Succeeded(p) /\ host[p].resetDetected /\ host[p].resetTime # Null) =>
            LET P == Val(host[p].prevReading)
                R == Val(host[p].resetTime)
            IN  /\ TsLeq(P.timestamp, R)
                /\ TsLeq(PlusSeconds(R, 1), host[p].timestamp)

----------------------------------------------------------------------------
(* Referential integrity (specification Spec)                              *)

\* C29 (the claim as stated): in every reachable state every reading's
\* account_id is the id of an account that has a row, whatever the
\* interleaving of record-reading requests, backfill runs and deletions.
C29_ReadingsHaveAccount ==
    \A r \in usage_history : HasRow(accounts, r.account_id)

----------------------------------------------------------------------------
(* Failed requests (specification SpecDetect)                              *)

\* C30 (the claim as stated): a record-reading request that has been
\* answered with success false has added no reading, and the row of its
\* account is as it was before the request ran its upsert (absent if it was
\* absent).
C30_FailureLeavesStore ==
    \A p \in Procs :
        (Answered(p) /\ Len(host[p].out) = 1 /\ ~host[p].out[1].success) =>
            /\ host[p].added = {}
            /\ host[p].rowBefore # Null =>
                  accounts[host[p].accountId] = Val(host[p].rowBefore)

====
